---------------------------- MODULE Spec2Model ----------------------------
(***************************************************************************)
(* A model of the air-unit core of Dune Legacy: AirUnit and Ornithopter    *)
(* (movement, turning, tile assignment, destruction, save/load and the     *)
(* targeting predicate), over a fixed-point number type, and of the angle  *)
(* functions of mmath.h.                                                   *)
(*                                                                         *)
(* A FixPoint value is modelled by the integer  value * One , so that      *)
(* addition, subtraction, comparison and min are exact, as they are in     *)
(* the program.                                                            *)
(***************************************************************************)
EXTENDS Integers, Sequences, FiniteSets, TLC

VARIABLES
    unit,           \* object id -> the fields of the AirUnit/Ornithopter object
    objectData,     \* the balance table entry [maxspeed, turnspeed, reloadtime]
    tileAir,        \* map: the <<tile, object id>> pairs of the tiles' air slots
    tileDead,       \* map: the dead-unit (wreck) markers placed on tiles
    explosionList,  \* Game::getExplosionList(): object ids that requested one
    soundLog,       \* SoundPlayer: object ids that played the explosion sound
    mapError,       \* TRUE once getTile was called for a tile that does not exist
    cycle,          \* Game::getGameCycleCount()
    sched,          \* position of the game loop: [who, phase]
    orders,         \* number of external calls made so far (bounded)
    stream,         \* the persisted record of a unit, or NoStream
    loaded,         \* the unit constructed from the stream, or NoUnit
    query,          \* the last canAttack call: [cand, result], or NoQuery
    crashed,        \* TRUE once a call on a released object has crashed
    last,           \* history: the last call and the unit and air slots before it
    turnSt,         \* state of the stand-alone turn harness
    mapSize,        \* Map::getSizeX() and getSizeY(): [x, y]
    explored,       \* map: the tiles revealed to the owner's team by viewMap
    calc,           \* the last call of a function of mmath.h: [fn, args, result]
    label,          \* a PictureLabel, the textures it was given and SDL's record
    ini,            \* an INIMap: the scenario file and the outcome of checkFeatures
    radar,          \* the RadarView, the local house's radar and the sound cues
    anim,           \* an Animation: its frames, current frame and loops left
    fade            \* a FadeOutVideoEvent: its frame counter and last alpha

\* the widgets and loaders beside the game loop
gui == <<label, ini, radar, anim, fade>>

\* the game: the units, the map and the harnesses of their functions
game == <<unit, objectData, tileAir, tileDead, explosionList, soundLog,
          mapError, cycle, sched, orders, stream, loaded, query,
          crashed, last, turnSt, mapSize, explored, calc>>

vars == <<game, gui>>

---------------------------------------------------------------------------
(* Bounds of the model *)

FracBits == 2
MapW == 3
MapH == 2
MaxCycles == 3
MaxOrders == 2
MaxCalls == 2
ReloadTime == 6
MaxTurnSteps == 2

\* the number of textures the callers of a PictureLabel hold
NumTextures == 2

\* the number of calls made on a PictureLabel before it is destroyed
MaxLabelCalls == 3

\* the number of keys in the FEATURES section of a scenario file
MaxKeys == 3

\* the frames of an Animation and the passes it is set to play
MaxFrames == 3
MaxLoops == 2

\* the frames of a fade and the draws made of it
MaxFadeFrames == 4
MaxFadeDraws == 6

\* the frames of the radar's static animation and the updates per frame
NUM_STATIC_FRAMES == 3
NUM_STATIC_FRAME_TIME == 2

(* Program constants *)

NUM_ANGLES == 8
TILESIZE == 64
ORNITHOPTER_FRAMETIME == 3
NumImagesY == 3
ReachDistance == 2
GuardDistance == 17

---------------------------------------------------------------------------
(* FixPoint arithmetic *)

RECURSIVE Pow2(_)
Pow2(n) == IF n = 0 THEN 1 ELSE 2 * Pow2(n - 1)

One == Pow2(FracBits)

Fix(n) == n * One

Abs(x) == IF x < 0 THEN -x ELSE x

Min(a, b) == IF a < b THEN a ELSE b

Max(a, b) == IF a > b THEN a ELSE b

\* C++ integer division: truncation toward zero
TruncDiv(a, b) == IF a >= 0 THEN a \div b ELSE -((-a) \div b)

\* C++ integer remainder: a - b * (a / b), the sign of the dividend
CRem(a, b) == a - b * TruncDiv(a, b)

\* lround of a FixPoint: nearest integer, halves away from zero
LRound(x) == IF x >= 0 THEN (2 * x + One) \div (2 * One)
                       ELSE -((2 * (-x) + One) \div (2 * One))

\* floor of a FixPoint
Floor(x) == x \div One

\* product of two FixPoint values, rounded to the nearest representable value
FixMul(a, b) == LET p == a * b
                IN IF p >= 0 THEN (2 * p + One) \div (2 * One)
                             ELSE -((2 * (-p) + One) \div (2 * One))

\* the size of the heading ring as a FixPoint
Ring == Fix(NUM_ANGLES)

\* cos(2*pi*i/32) * 1024
CosTab == <<1024, 1004, 946, 851, 724, 569, 392, 200, 0, -200, -392, -569,
            -724, -851, -946, -1004, -1024, -1004, -946, -851, -724, -569,
            -392, -200, 0, 200, 392, 569, 724, 851, 946, 1004>>

CosIdx(a) == ((a % Ring) * 32) \div Ring

RoundDiv(p, q) == IF p >= 0 THEN (2 * p + q) \div (2 * q)
                            ELSE -((2 * (-p) + q) \div (2 * q))

\* FixPoint::cos(angle * 2*pi / 8) as a FixPoint
CosOfAngle(a) == RoundDiv(CosTab[CosIdx(a) + 1] * One, 1024)

\* FixPoint::sin(angle * 2*pi / 8) as a FixPoint
SinOfAngle(a) == CosOfAngle(a + 3 * Ring - Ring \div 4)

---------------------------------------------------------------------------
(* AirUnit::turn *)

\* the smaller of the two arcs between two headings of the ring
AngleDist(a, d) == LET diff == Abs(a - d) IN Min(diff, Ring - diff)

\* angleRight of AirUnit::turn
AngleRight(angle, destinationAngle) ==
    IF angle > destinationAngle THEN angle - destinationAngle
    ELSE IF angle < destinationAngle
         THEN Abs(Ring - destinationAngle) + angle
         ELSE 0

\* angleLeft of AirUnit::turn
AngleLeft(angle, destinationAngle) ==
    IF angle > destinationAngle THEN Abs(Ring - angle) + destinationAngle
    ELSE IF angle < destinationAngle
         THEN destinationAngle - angle
         ELSE 0

\* no comparison: the heading is always decreased
TurnsLeftNever(angle, destinationAngle) == FALSE

\* the comparison with < in place of <=
TurnsLeftStrict(angle, destinationAngle) ==
    AngleLeft(angle, destinationAngle) < AngleRight(angle, destinationAngle)

\* the comparison that picks the left (heading-increasing) branch
TurnsLeft(angle, destinationAngle) ==
    AngleLeft(angle, destinationAngle) <= AngleRight(angle, destinationAngle)

\* the step toward the destination without the cap by the remaining angle
TurnTowardUncapped(angle, destinationAngle, turnspeed) ==
    IF TurnsLeft(angle, destinationAngle)
    THEN LET a == angle + turnspeed
         IN IF a >= Ring THEN a - Ring ELSE a
    ELSE LET a == angle - turnspeed
         IN IF a < 0 THEN a + Ring ELSE a

\* the branch with a usable destination: the new heading
TurnToward(angle, destinationAngle, turnspeed) ==
    IF TurnsLeft(angle, destinationAngle)
    THEN LET a == angle + Min(turnspeed, AngleLeft(angle, destinationAngle))
         IN IF a >= Ring THEN a - Ring ELSE a
    ELSE LET a == angle - Min(turnspeed, AngleRight(angle, destinationAngle))
         IN IF a < 0 THEN a + Ring ELSE a

\* the branch without a usable destination: the new heading
TurnCircle(angle, turnspeed) ==
    LET a == angle - TruncDiv(turnspeed, 8)
    IN IF a < 0 THEN a + Ring ELSE a

\* lround(angle) without the reduction modulo NUM_ANGLES
DrawnAngleNoMod(angle) == LRound(angle)

\* lround(angle) % NUM_ANGLES
DrawnAngleOf(angle) == CRem(LRound(angle), NUM_ANGLES)

\* the condition without the test of the weapon timer
TurnsTowardValidDestination(destValid, timer, reloadtime) == destValid

\* the condition of AirUnit::turn for turning toward the destination
TurnsTowardDestination(destValid, timer, reloadtime) ==
    destValid /\ timer <= TruncDiv(reloadtime, 3)

\* AirUnit::turn as a function of what it reads: the new heading
TurnAngle(angle, destValid, timer, reloadtime, destinationAngle, turnspeed) ==
    IF TurnsTowardDestination(destValid, timer, reloadtime)
    THEN TurnToward(angle, destinationAngle, turnspeed)
    ELSE TurnCircle(angle, turnspeed)

---------------------------------------------------------------------------
(* Coordinates and the map *)

INVALID_POS == -1

\* a Coord with its valid/invalid state
Coord(x, y) == [valid |-> TRUE, x |-> x, y |-> y]

\* Coord::invalidate
InvalidCoord == [valid |-> FALSE, x |-> INVALID_POS, y |-> INVALID_POS]

\* Map::tileExists
TileExists(x, y) == x >= 0 /\ x < mapSize.x /\ y >= 0 /\ y < mapSize.y

\* blockDistance(p1, p2) as a FixPoint: max + min * (sqrt(2) - 1)
BlockDistance(x1, y1, x2, y2) ==
    LET xDis == Abs(x1 - x2)
        yDis == Abs(y1 - y2)
    IN Fix(Max(xDis, yDis)) + RoundDiv(Min(xDis, yDis) * 424 * One, 1024)

\* the heading (in ring units, as a FixPoint) of the vector (dx, dy) in screen
\* space (y grows downward): exact on the 8 principal directions, linear between
DestinationAngle(dx, dy) ==
    LET ax == Abs(dx)
        ay == Abs(dy)
        \* first octant pair: the angle of (ax, ay) in [0, 2] ring units
        q == IF ax = 0 /\ ay = 0 THEN 0
             ELSE IF ay <= ax THEN RoundDiv(ay * One, ax)
             ELSE Fix(2) - RoundDiv(ax * One, ay)
        a == IF dx >= 0 /\ dy <= 0 THEN q
             ELSE IF dx < 0 /\ dy <= 0 THEN Fix(4) - q
             ELSE IF dx < 0 /\ dy > 0 THEN Fix(4) + q
             ELSE Fix(8) - q
    IN a % Ring

---------------------------------------------------------------------------
(* Tile assignment *)

\* UnitBase::unassignFromMap: the object leaves the tile at pos
UnassignFromMap(air, pos, id) == air \ {<<pos, id>>}

\* Map::getTile(pos)->assignAirUnit(id); getTile fails for a missing tile
GetTileAssignAirUnit(air, pos, id) ==
    [air |-> air \cup {<<pos, id>>}, err |-> ~TileExists(pos[1], pos[2])]

\* AirUnit::assignToMap without its existence check
AssignToMapUnchecked(guardPoint, air, pos, id) ==
    LET r == GetTileAssignAirUnit(air, pos, id)
    IN [guardPoint |-> IF ~guardPoint.valid THEN Coord(pos[1], pos[2])
                                            ELSE guardPoint,
        air |-> r.air, err |-> r.err, view |-> {}]

\* assignToMap with the call of viewMap that the code has commented out
AssignToMapRevealing(guardPoint, air, pos, id) ==
    IF TileExists(pos[1], pos[2])
    THEN LET r == GetTileAssignAirUnit(air, pos, id)
         IN [guardPoint |-> IF ~guardPoint.valid THEN Coord(pos[1], pos[2])
                                                 ELSE guardPoint,
             air |-> r.air, err |-> r.err,
             view |-> {t \in ((pos[1] - 1) .. (pos[1] + 1))
                                \X ((pos[2] - 1) .. (pos[2] + 1)) :
                          TileExists(t[1], t[2])}]
    ELSE [guardPoint |-> guardPoint, air |-> air, err |-> FALSE, view |-> {}]

\* assignToMap that sets the guard point on every call
AssignToMapOverwriting(guardPoint, air, pos, id) ==
    IF TileExists(pos[1], pos[2])
    THEN LET r == GetTileAssignAirUnit(air, pos, id)
         IN [guardPoint |-> Coord(pos[1], pos[2]),
             air |-> r.air, err |-> r.err, view |-> {}]
    ELSE [guardPoint |-> guardPoint, air |-> air, err |-> FALSE, view |-> {}]

\* AirUnit::assignToMap: the new guard point, air slots and getTile failure,
\* and the tiles revealed to the owner's team (none)
AssignToMap(guardPoint, air, pos, id) ==
    IF TileExists(pos[1], pos[2])
    THEN LET r == GetTileAssignAirUnit(air, pos, id)
         IN [guardPoint |-> IF ~guardPoint.valid THEN Coord(pos[1], pos[2])
                                                 ELSE guardPoint,
             air |-> r.air, err |-> r.err, view |-> {}]
    ELSE [guardPoint |-> guardPoint, air |-> air, err |-> FALSE, view |-> {}]

---------------------------------------------------------------------------
(* AirUnit::move and Ornithopter::checkPos *)

\* the tile by flooring instead of rounding and truncating
TileOfFloor(realX, realY) ==
    <<Floor(realX) \div TILESIZE, Floor(realY) \div TILESIZE>>

\* Coord(realX.lround()/TILESIZE, realY.lround()/TILESIZE)
TileOf(realX, realY) ==
    <<TruncDiv(LRound(realX), TILESIZE), TruncDiv(LRound(realY), TILESIZE)>>

\* the step along x of a unit that is slowed down when badly damaged
NextRealXBadlyDamaged(u) ==
    u.realX + FixMul(CosOfAngle(u.angle),
                     IF 2 * u.health < 100 THEN u.currentMaxSpeed \div 2
                                           ELSE u.currentMaxSpeed)

\* the step along x without the speed factor
NextRealXUnitSpeed(u) == u.realX + CosOfAngle(u.angle)

\* the position after adding the heading-aligned velocity
NextRealX(u) == u.realX + FixMul(CosOfAngle(u.angle), u.currentMaxSpeed)

\* the step along y with Y increasing upward
NextRealYUpward(u) == u.realY + FixMul(SinOfAngle(u.angle), u.currentMaxSpeed)

\* the position after subtracting the heading-aligned velocity along y
NextRealY(u) == u.realY + (-FixMul(SinOfAngle(u.angle), u.currentMaxSpeed))

\* the tile transition of AirUnit::move that forgets to leave the old tile
MoveTilesNoUnassign(guardPoint, air, location, newLocation, id) ==
    IF newLocation # location
    THEN AssignToMap(guardPoint, air, newLocation, id)
         @@ [calls |-> << <<"assignToMap", newLocation>> >>]
    ELSE [guardPoint |-> guardPoint, air |-> air, err |-> FALSE, view |-> {},
          calls |-> << >>]

\* the tile transition without the comparison of the two tiles
MoveTilesAlways(guardPoint, air, location, newLocation, id) ==
    AssignToMap(guardPoint, UnassignFromMap(air, location, id),
                newLocation, id)
    @@ [calls |-> << <<"unassignFromMap", location>>,
                     <<"assignToMap", newLocation>> >>]

\* the tile transition of AirUnit::move: leave the old tile, enter the new one;
\* calls lists the map calls the tick makes, in the order it makes them
MoveTiles(guardPoint, air, location, newLocation, id) ==
    IF newLocation # location
    THEN AssignToMap(guardPoint, UnassignFromMap(air, location, id),
                     newLocation, id)
         @@ [calls |-> << <<"unassignFromMap", location>>,
                          <<"assignToMap", newLocation>> >>]
    ELSE [guardPoint |-> guardPoint, air |-> air, err |-> FALSE, view |-> {},
          calls |-> << >>]

\* checkPos with < in place of <= in the reach test
CheckPosDestinationStrict(u, loc) ==
    IF ~u.target
    THEN IF u.destination.valid
         THEN IF BlockDistance(loc[1], loc[2], u.destination.x, u.destination.y)
                     < Fix(ReachDistance)
              THEN InvalidCoord
              ELSE u.destination
         ELSE IF BlockDistance(loc[1], loc[2], u.guardPoint.x, u.guardPoint.y)
                     > Fix(GuardDistance)
              THEN u.guardPoint
              ELSE u.destination
    ELSE u.destination

\* checkPos sending every unit without destination back to its guard point
CheckPosDestinationNoThreshold(u, loc) ==
    IF ~u.target
    THEN IF u.destination.valid
         THEN IF BlockDistance(loc[1], loc[2], u.destination.x, u.destination.y)
                     <= Fix(ReachDistance)
              THEN InvalidCoord
              ELSE u.destination
         ELSE u.guardPoint
    ELSE u.destination

\* checkPos with >= in place of > in the guard-point test
CheckPosDestinationAtLeast(u, loc) ==
    IF ~u.target
    THEN IF u.destination.valid
         THEN IF BlockDistance(loc[1], loc[2], u.destination.x, u.destination.y)
                     <= Fix(ReachDistance)
              THEN InvalidCoord
              ELSE u.destination
         ELSE IF BlockDistance(loc[1], loc[2], u.guardPoint.x, u.guardPoint.y)
                     >= Fix(GuardDistance)
              THEN u.guardPoint
              ELSE u.destination
    ELSE u.destination

\* Ornithopter::checkPos: the new destination of a unit at tile loc
CheckPosDestination(u, loc) ==
    IF ~u.target
    THEN IF u.destination.valid
         THEN IF BlockDistance(loc[1], loc[2], u.destination.x, u.destination.y)
                     <= Fix(ReachDistance)
              THEN InvalidCoord
              ELSE u.destination
         ELSE IF BlockDistance(loc[1], loc[2], u.guardPoint.x, u.guardPoint.y)
                     > Fix(GuardDistance)
              THEN u.guardPoint
              ELSE u.destination
    ELSE u.destination

\* drawnFrame of Ornithopter::checkPos
DrawnFrameOf(cyc, id) ==
    CRem(TruncDiv(cyc + id, ORNITHOPTER_FRAMETIME), NumImagesY)

---------------------------------------------------------------------------
(* Destruction, persistence and targeting *)

\* Ornithopter::destroy, wreck placement: the new dead-unit markers
PlaceWreck(dead, u, id) ==
    IF TileExists(u.location[1], u.location[2])
    THEN Append(dead, [pos |-> u.location, id |-> id])
    ELSE dead

\* no explosion is ever requested
RequestsExplosionNever(u) == FALSE

\* AirUnit::destroy: the explosion is requested when the unit is visible
RequestsExplosion(u) == u.visible

\* the sound is played for every visible unit
PlaysSoundWhenVisible(u) == u.visible

\* AirUnit::destroy: the sound is played when also visible to the own team
PlaysSound(u) == u.visible /\ u.visibleOwn

\* UnitBase::destroy: the object leaves every tile
RemoveObjectFromMap(air, id) == {p \in air : p[2] # id}

\* the fields written by UnitBase::save and AirUnit::save
SavedFields(u) ==
    [realX |-> u.realX, realY |-> u.realY, location |-> u.location,
     angle |-> u.angle, drawnAngle |-> u.drawnAngle, health |-> u.health,
     destination |-> u.destination, guardPoint |-> u.guardPoint,
     currentMaxSpeed |-> u.currentMaxSpeed]

\* AirUnit::AirUnit(InputStream&): the base fields, then the max speed
AirUnitFromStream(s) ==
    [realX |-> s.realX, realY |-> s.realY, location |-> s.location,
     angle |-> s.angle, drawnAngle |-> s.drawnAngle, health |-> s.health,
     destination |-> s.destination, guardPoint |-> s.guardPoint,
     currentMaxSpeed |-> s.currentMaxSpeed]

\* Ornithopter::init: the max speed is taken from the balance table
OrnithopterInit(r, table) == [r EXCEPT !.currentMaxSpeed = table.maxspeed]

\* Ornithopter::Ornithopter(InputStream&)
OrnithopterFromStream(s, table) == OrnithopterInit(AirUnitFromStream(s), table)

NullObject == [null |-> TRUE, flying |-> FALSE, team |-> 0,
               sandworm |-> FALSE, visibleTo |-> {}]

\* the objects canAttack may be asked about
Candidates ==
    {NullObject} \cup
    [null : {FALSE}, flying : BOOLEAN, team : {1, 2, 3}, sandworm : BOOLEAN,
     visibleTo : SUBSET {1, 2, 3}]

\* canAttack without the sandworm exception
CanAttackNoSandworm(ownTeam, object) ==
    /\ ~object.null
    /\ ~object.flying
    /\ object.team # ownTeam
    /\ ownTeam \in object.visibleTo

\* Ornithopter::canAttack for an observer of team ownTeam
CanAttack(ownTeam, object) ==
    /\ ~object.null
    /\ ~object.flying
    /\ (object.team # ownTeam \/ object.sandworm)
    /\ ownTeam \in object.visibleTo

---------------------------------------------------------------------------
(* The state after construction *)

NoStream == [open |-> FALSE]

NoUnit == [built |-> FALSE]

NoQuery == [asked |-> FALSE]

NoCall == [op |-> "none", reached |-> {}]

TurnIdle == [angle |-> 0, drawnAngle |-> 0, dest |-> 0, speed |-> 0,
             prev |-> 0, destValid |-> FALSE, timer |-> 0, steps |-> 0]

\* balance-table values the model draws from
MaxSpeedValues == {Fix(2), Fix(1)}

TurnSpeedValues == {One \div 2, Fix(2)}

Tables == [maxspeed : MaxSpeedValues, turnspeed : TurnSpeedValues,
           reloadtime : {ReloadTime}]

TheTable == [maxspeed |-> Fix(2), turnspeed |-> Fix(2),
             reloadtime |-> ReloadTime]

\* starting positions: just inside the map, just below the first tile
\* boundary, and just inside the far edge
StartX == {Fix(1), Fix(TILESIZE) - (5 * One) \div 2, Fix(MapW * TILESIZE - 1)}

StartY == {Fix(1), Fix(MapH * TILESIZE - 1)}

StartAngles == {0, One, Fix(2), Fix(4), Fix(6) + One \div 2}

StartDestinations == {InvalidCoord, Coord(0, 0), Coord(MapW - 1, MapH - 1)}

Visibilities == {<<FALSE, FALSE>>, <<TRUE, FALSE>>, <<TRUE, TRUE>>}

Teams == {1, 2, 3}

\* an ornithopter after Ornithopter::Ornithopter(House*): not yet on the map
Constructed(a, vis, table, id, team) ==
    [realX |-> Fix(INVALID_POS), realY |-> Fix(INVALID_POS),
     location |-> <<INVALID_POS, INVALID_POS>>,
     angle |-> a, drawnAngle |-> DrawnAngleOf(a),
     drawnFrame |-> DrawnFrameOf(0, id),
     destination |-> InvalidCoord, guardPoint |-> InvalidCoord,
     target |-> FALSE, currentMaxSpeed |-> table.maxspeed, health |-> 100,
     primaryWeaponTimer |-> 0,
     visible |-> vis[1], visibleOwn |-> vis[2], team |-> team,
     deployed |-> FALSE, released |-> FALSE]

\* an ornithopter on the map at (x, y): its fields are consistent with each other
Deployed(x, y, a, d, tgt, vis, timer, table, id, team) ==
    [Constructed(a, vis, table, id, team) EXCEPT
        !.realX = x, !.realY = y, !.location = TileOf(x, y),
        !.destination = d,
        !.guardPoint = Coord(TileOf(x, y)[1], TileOf(x, y)[2]),
        !.target = tgt, !.primaryWeaponTimer = timer, !.deployed = TRUE]

\* the air slots that hold the deployed units
AirSlotsOf(units) ==
    {<<units[i].location, i>> :
        i \in {j \in DOMAIN units :
                  /\ units[j].deployed
                  /\ TileExists(units[j].location[1], units[j].location[2])}}

CalcIdle == [fn |-> "none"]

\* the map of the given size with the deployed units on it
\* no PictureLabel, scenario file or RadarView is in use
NoLabel == [alive |-> FALSE]

NoIni == [loaded |-> FALSE]

NoRadar == [constructed |-> FALSE]

NoAnim == [constructed |-> FALSE]

NoFade == [constructed |-> FALSE]

GuiIdle ==
    /\ label = NoLabel /\ ini = NoIni /\ radar = NoRadar
    /\ anim = NoAnim /\ fade = NoFade

EnvGame(size) ==
    /\ mapSize = size
    /\ explored = {}
    /\ tileAir = AirSlotsOf(unit)
    /\ tileDead = <<>>
    /\ explosionList = <<>>
    /\ soundLog = <<>>
    /\ mapError = FALSE
    /\ crashed = FALSE
    /\ cycle = 0
    /\ orders = 0
    /\ sched = [who |-> 1, phase |-> "move"]
    /\ stream = NoStream
    /\ loaded = NoUnit
    /\ query = NoQuery
    /\ last = NoCall

EnvOf(size) == GuiIdle /\ EnvGame(size)

\* no function of mmath.h has been called
EnvOn(size) == calc = CalcIdle /\ EnvOf(size)

EnvInit == EnvOn([x |-> MapW, y |-> MapH])

\* movement: an ornithopter somewhere on the map, with or without orders
Init ==
    /\ objectData \in Tables
    /\ \E x \in StartX, y \in StartY, a \in StartAngles,
          d \in StartDestinations, tgt \in BOOLEAN,
          timer \in {0, ReloadTime} :
            unit = (1 :> Deployed(x, y, a, d, tgt, <<TRUE, TRUE>>, timer,
                                  objectData, 1, 1))
    /\ turnSt = TurnIdle
    /\ EnvInit

\* life cycle: an ornithopter just constructed, in the middle of the map or at
\* its far edge
InitLife ==
    /\ objectData \in Tables
    /\ \E a \in {0, Fix(2)}, vis \in Visibilities :
          \/ unit = (1 :> Constructed(a, vis, objectData, 1, 1))
          \/ \E x \in {Fix(TILESIZE \div 2), Fix(MapW * TILESIZE - 1)} :
                unit = (1 :> Deployed(x, Fix(TILESIZE \div 2), a, InvalidCoord,
                                      FALSE, vis, 0, objectData, 1, 1))
    /\ turnSt = TurnIdle
    /\ EnvInit

\* targeting: an ornithopter of any team
InitAttack ==
    /\ objectData = TheTable
    /\ \E team \in Teams :
            unit = (1 :> Deployed(Fix(TILESIZE \div 2), Fix(TILESIZE \div 2),
                                  0, InvalidCoord, FALSE, <<TRUE, TRUE>>, 0,
                                  objectData, 1, team))
    /\ turnSt = TurnIdle
    /\ EnvInit

---------------------------------------------------------------------------
(* The game loop: every live unit moves, then turns; then the cycle ends *)

Live(units) == {i \in DOMAIN units : units[i].deployed /\ ~units[i].released}

MinOf(S) == CHOOSE m \in S : \A n \in S : m <= n

\* between two cycles: the place where calls from outside the loop happen
AtBoundary ==
    /\ ~crashed
    /\ sched.phase = "move"
    /\ Live(unit) # {} => sched.who = MinOf(Live(unit))

\* the history of a call op on unit id; reached holds the units whose
\* destination was invalidated on arrival and has not been set again since
Call(op, id) == [op |-> op, id |-> id, unit |-> unit[id], air |-> tileAir,
                 reached |-> last.reached]

\* AirUnit::move for the unit whose turn it is
MoveStep(id) ==
    /\ ~crashed
    /\ sched = [who |-> id, phase |-> "move"]
    /\ id \in Live(unit)
    /\ LET u == unit[id]
           x == NextRealX(u)
           y == NextRealY(u)
           newLocation == TileOf(x, y)
           r == MoveTiles(u.guardPoint, tileAir, u.location, newLocation, id)
           moved == [u EXCEPT !.realX = x, !.realY = y,
                              !.location = newLocation,
                              !.guardPoint = r.guardPoint]
       IN /\ unit' = [unit EXCEPT ![id] =
                        [moved EXCEPT
                           !.destination = CheckPosDestination(moved, newLocation),
                           !.drawnFrame = DrawnFrameOf(cycle, id)]]
          /\ tileAir' = r.air
          /\ explored' = explored \cup r.view
          /\ mapError' = (mapError \/ r.err)
    /\ sched' = [who |-> id, phase |-> "turn"]
    /\ last' = [Call("move", id) EXCEPT !.reached =
                    IF unit[id].destination.valid
                    THEN IF unit'[id].destination.valid THEN @ ELSE @ \cup {id}
                    ELSE IF unit'[id].destination.valid THEN @ \ {id} ELSE @]
                @@ [calls |-> MoveTiles(unit[id].guardPoint, tileAir,
                                        unit[id].location,
                                        TileOf(NextRealX(unit[id]),
                                               NextRealY(unit[id])),
                                        id).calls]
    /\ UNCHANGED <<gui, objectData, mapSize, calc,
                   tileDead, explosionList, soundLog, cycle,
                   orders, stream, loaded, query, crashed, turnSt>>

\* the game loop runs MaxCycles cycles
Move(id) == cycle < MaxCycles /\ MoveStep(id)

\* the heading from the unit's position to the centre of its destination tile
DestinationAngleOf(u) ==
    DestinationAngle(
        Fix(u.destination.x * TILESIZE + TILESIZE \div 2) - u.realX,
        Fix(u.destination.y * TILESIZE + TILESIZE \div 2) - u.realY)

\* AirUnit::turn for the unit whose turn it is; then the loop goes on
Turn(id) ==
    /\ ~crashed
    /\ sched = [who |-> id, phase |-> "turn"]
    /\ LET u == unit[id]
           a == TurnAngle(u.angle, u.destination.valid, u.primaryWeaponTimer,
                          objectData.reloadtime, DestinationAngleOf(u),
                          objectData.turnspeed)
       IN unit' = [unit EXCEPT ![id] =
                     [u EXCEPT !.angle = a, !.drawnAngle = DrawnAngleOf(a)]]
    /\ LET later == {i \in Live(unit) : i > id}
       IN IF later # {}
          THEN /\ sched' = [who |-> MinOf(later), phase |-> "move"]
               /\ cycle' = cycle
          ELSE /\ sched' = [who |-> MinOf(Live(unit)), phase |-> "move"]
               /\ cycle' = cycle + 1
    /\ last' = Call("turn", id)
    /\ UNCHANGED <<gui, objectData, mapSize, calc, explored,
                   tileAir, tileDead, explosionList, soundLog,
                   mapError, orders, stream, loaded, query, crashed, turnSt>>

---------------------------------------------------------------------------
(* Calls from outside the loop, made between two cycles *)

OrderTargets == {Coord(0, 0), Coord(MapW - 1, 0), Coord(MapW - 1, MapH - 1)}

\* UnitBase::setDestination: a new order
SetDestination(id, c) ==
    /\ AtBoundary
    /\ orders < MaxOrders
    /\ id \in Live(unit)
    /\ unit' = [unit EXCEPT ![id].destination = c]
    /\ orders' = orders + 1
    /\ last' = [Call("setDestination", id) EXCEPT !.reached = @ \ {id}]
    /\ UNCHANGED <<gui, objectData, mapSize, calc, explored,
                   tileAir, tileDead, explosionList, soundLog,
                   mapError, cycle, sched, stream, loaded, query, crashed,
                   turnSt>>

\* UnitBase::setTarget: the unit gets or loses its attack target
SetTarget(id, tgt) ==
    /\ AtBoundary
    /\ orders < MaxOrders
    /\ id \in Live(unit)
    /\ unit[id].target # tgt
    /\ unit' = [unit EXCEPT ![id].target = tgt]
    /\ orders' = orders + 1
    /\ last' = Call("setTarget", id)
    /\ UNCHANGED <<gui, objectData, mapSize, calc, explored,
                   tileAir, tileDead, explosionList, soundLog,
                   mapError, cycle, sched, stream, loaded, query, crashed,
                   turnSt>>

\* the tiles a new unit may be placed on: on the map and beyond its far edge
DeployTiles == {<<0, 0>>, <<MapW - 1, MapH - 1>>, <<MapW, 0>>}

\* the unit is placed at the centre of tile pos and assignToMap(pos) is called
Deploy(id, pos) ==
    /\ AtBoundary
    /\ orders < MaxCalls
    /\ ~unit[id].deployed /\ ~unit[id].released
    /\ LET u == unit[id]
           r == AssignToMap(u.guardPoint, tileAir, pos, id)
       IN /\ unit' = [unit EXCEPT ![id] =
                        [u EXCEPT !.location = pos,
                                  !.realX = Fix(pos[1] * TILESIZE + TILESIZE \div 2),
                                  !.realY = Fix(pos[2] * TILESIZE + TILESIZE \div 2),
                                  !.guardPoint = r.guardPoint,
                                  !.deployed = TRUE]]
          /\ tileAir' = r.air
          /\ explored' = explored \cup r.view
          /\ mapError' = (mapError \/ r.err)
    /\ sched' = [who |-> MinOf(Live(unit')), phase |-> "move"]
    /\ orders' = orders + 1
    /\ last' = Call("deploy", id)
    /\ UNCHANGED <<gui, objectData, mapSize, calc,
                   tileDead, explosionList, soundLog, cycle,
                   stream, loaded, query, crashed, turnSt>>

\* Ornithopter::destroy, AirUnit::destroy and UnitBase::destroy, run to the end
DestroyBody(id) ==
    LET u == unit[id]
    IN /\ tileDead' = PlaceWreck(tileDead, u, id)
       /\ explosionList' = IF RequestsExplosion(u)
                           THEN Append(explosionList, id) ELSE explosionList
       /\ soundLog' = IF PlaysSound(u) THEN Append(soundLog, id) ELSE soundLog
       /\ tileAir' = RemoveObjectFromMap(tileAir, id)
       /\ unit' = [unit EXCEPT ![id].released = TRUE]
       /\ LET live == Live(unit')
          IN sched' = IF live = {} THEN sched
                      ELSE [who |-> MinOf(live), phase |-> "move"]
       /\ crashed' = crashed

\* destroy() called on a unit; nothing in the code refuses a second call, and
\* a call on a released object either runs on the stale object or crashes
Destroy(id) ==
    /\ AtBoundary
    /\ orders < MaxCalls
    /\ unit[id].deployed
    /\ orders' = orders + 1
    /\ last' = Call("destroy", id)
    /\ \/ DestroyBody(id)
       \/ /\ unit[id].released
          /\ crashed' = TRUE
          /\ UNCHANGED <<gui, unit, tileAir, tileDead, explosionList, soundLog,
                         sched>>
    /\ UNCHANGED <<gui, objectData, mapSize, calc, explored,
                   mapError, cycle, stream, loaded, query, turnSt>>

\* Ornithopter::save: the unit is written to the stream
Save(id) ==
    /\ AtBoundary
    /\ orders < MaxCalls
    /\ id \in Live(unit)
    /\ stream' = [open |-> TRUE, fields |-> SavedFields(unit[id])]
    /\ orders' = orders + 1
    /\ last' = Call("save", id)
    /\ UNCHANGED <<gui, unit, objectData, mapSize, calc, explored,
                   tileAir, tileDead, explosionList,
                   soundLog, mapError, cycle, sched, loaded, query, crashed,
                   turnSt>>

\* a stream written by another session of the game, whose units had another
\* current max speed, is opened
OpenStream(id, speed) ==
    /\ AtBoundary
    /\ orders < MaxCalls
    /\ id \in Live(unit)
    /\ stream' = [open |-> TRUE, fields |->
                    [SavedFields(unit[id]) EXCEPT !.currentMaxSpeed = speed]]
    /\ orders' = orders + 1
    /\ last' = Call("openStream", id)
    /\ UNCHANGED <<gui, unit, objectData, mapSize, calc, explored,
                   tileAir, tileDead, explosionList,
                   soundLog, mapError, cycle, sched, loaded, query, crashed,
                   turnSt>>

\* Ornithopter::Ornithopter(InputStream&): a unit is built from the stream
Load ==
    /\ AtBoundary
    /\ orders < MaxCalls
    /\ stream.open
    /\ loaded' = [built |-> TRUE, from |-> stream.fields,
                  fields |-> OrnithopterFromStream(stream.fields, objectData)]
    /\ orders' = orders + 1
    /\ last' = [op |-> "load", reached |-> last.reached]
    /\ UNCHANGED <<gui, unit, objectData, mapSize, calc, explored,
                   tileAir, tileDead, explosionList,
                   soundLog, mapError, cycle, sched, stream, query, crashed,
                   turnSt>>

\* Ornithopter::canAttack is asked about an object
AskCanAttack(id, object) ==
    /\ AtBoundary
    /\ orders < MaxCalls
    /\ id \in Live(unit)
    /\ query' = [asked |-> TRUE, by |-> id, object |-> object,
                 result |-> CanAttack(unit[id].team, object)]
    /\ orders' = orders + 1
    /\ last' = Call("canAttack", id)
    /\ UNCHANGED <<gui, unit, objectData, mapSize, calc, explored,
                   tileAir, tileDead, explosionList,
                   soundLog, mapError, cycle, sched, stream, loaded, crashed,
                   turnSt>>

Next ==
    \/ \E id \in DOMAIN unit : Move(id)
    \/ \E id \in DOMAIN unit : Turn(id)
    \/ \E id \in DOMAIN unit, c \in OrderTargets : SetDestination(id, c)
    \/ \E id \in DOMAIN unit, tgt \in BOOLEAN : SetTarget(id, tgt)

Spec == Init /\ [][Next]_vars

NextLife ==
    \/ \E id \in DOMAIN unit : Move(id)
    \/ \E id \in DOMAIN unit : Turn(id)
    \/ \E id \in DOMAIN unit, pos \in DeployTiles : Deploy(id, pos)
    \/ \E id \in DOMAIN unit : Destroy(id)
    \/ \E id \in DOMAIN unit : Save(id)
    \/ \E id \in DOMAIN unit, speed \in MaxSpeedValues : OpenStream(id, speed)
    \/ Load

SpecLife == InitLife /\ [][NextLife]_vars

NextAttack ==
    \E id \in DOMAIN unit, object \in Candidates : AskCanAttack(id, object)

SpecAttack == InitAttack /\ [][NextAttack]_vars

---------------------------------------------------------------------------
(* AirUnit::turn alone, from every heading, destination heading and speed *)

Headings == 0 .. (Ring - 1)

\* turn speeds from 0 to the whole ring; above half the ring the step toward
\* the destination is capped by the remaining angle
HarnessSpeeds == (0 .. (Ring \div 2 + 1)) \cup {Ring}

InitTurn ==
    /\ objectData = TheTable
    /\ unit = (1 :> Deployed(Fix(TILESIZE \div 2), Fix(TILESIZE \div 2), 0,
                             InvalidCoord, FALSE, <<TRUE, TRUE>>, 0,
                             objectData, 1, 1))
    /\ \E h \in Headings, d \in Headings, t \in HarnessSpeeds :
          turnSt = [angle |-> h, drawnAngle |-> DrawnAngleOf(h), dest |-> d,
                    speed |-> t, prev |-> h, destValid |-> FALSE,
                    timer |-> 0, steps |-> 0]
    /\ EnvInit

\* one call of AirUnit::turn with the given destination state and weapon timer
HarnessTurn(destValid, timer) ==
    /\ turnSt.steps < MaxTurnSteps
    /\ LET a == TurnAngle(turnSt.angle, destValid, timer, ReloadTime,
                          turnSt.dest, turnSt.speed)
       IN turnSt' = [turnSt EXCEPT !.angle = a,
                                   !.drawnAngle = DrawnAngleOf(a),
                                   !.prev = turnSt.angle,
                                   !.destValid = destValid,
                                   !.timer = timer,
                                   !.steps = turnSt.steps + 1]
    /\ UNCHANGED <<gui, unit, objectData, mapSize, calc, explored,
                   tileAir, tileDead, explosionList,
                   soundLog, mapError, cycle, sched, orders, stream, loaded,
                   query, crashed, last>>

\* primary weapon timers: none, and at and just above a third of the reload time
WeaponTimers == {0, ReloadTime \div 3, ReloadTime \div 3 + 1}

NextTurn == \E destValid \in BOOLEAN, timer \in WeaponTimers :
                HarnessTurn(destValid, timer)

SpecTurn == InitTurn /\ [][NextTurn]_vars

---------------------------------------------------------------------------
(* Guard-point drift: an ornithopter far from its guard point on a wide map *)

\* a map wide enough for a block distance of more than GuardDistance tiles
WideMap == [x |-> GuardDistance + MapW, y |-> MapH]

\* just below and just above the boundary between the tile columns
\* GuardDistance and GuardDistance + 1
DriftX == {Fix((GuardDistance + 1) * TILESIZE) - (5 * One) \div 2,
           Fix((GuardDistance + 1) * TILESIZE) + One}

\* an ornithopter that was deployed at tile g and has flown to (x, y)
Drifted(x, y, a, d, tgt, timer, table, id, g) ==
    [Deployed(x, y, a, d, tgt, <<TRUE, TRUE>>, timer, table, id, 1) EXCEPT
        !.guardPoint = g]

InitGuard ==
    /\ objectData \in Tables
    /\ \E x \in DriftX, y \in StartY, a \in {0, Fix(4)},
          d \in {InvalidCoord, Coord(GuardDistance + MapW - 1, 0)},
          tgt \in BOOLEAN, timer \in {0, ReloadTime} :
            unit = (1 :> Drifted(x, y, a, d, tgt, timer, objectData, 1,
                                 Coord(0, 0)))
    /\ turnSt = TurnIdle
    /\ EnvOn(WideMap)

SpecGuard == InitGuard /\ [][Next]_vars

---------------------------------------------------------------------------
(* The straight-line scenario: from tile (0,0), heading 0, to tile (5,0) *)

LineDestination == Coord(5, 0)

LineMap == [x |-> LineDestination.x + 1, y |-> MapH]

\* the number of move ticks made so far
Ticks == cycle + (IF sched.phase = "turn" THEN 1 ELSE 0)

\* enough ticks to come within reach of the destination, and a few more
LineTicks == (3 * TILESIZE) \div 2 + MaxCycles

\* max speed 2 world units per tick, any turn speed, the weapon reloaded far
\* enough for turning toward the destination
InitLine ==
    /\ objectData \in [maxspeed : {Fix(2)}, turnspeed : TurnSpeedValues,
                       reloadtime : {ReloadTime}]
    /\ \E x \in {Fix(1), Fix(TILESIZE \div 2), Fix(TILESIZE - 1)},
          timer \in {0, ReloadTime \div 3} :
            unit = (1 :> Deployed(x, Fix(TILESIZE \div 2), 0, LineDestination,
                                  FALSE, <<TRUE, TRUE>>, timer, objectData,
                                  1, 1))
    /\ turnSt = TurnIdle
    /\ EnvOn(LineMap)

LineMove == Ticks < LineTicks /\ MoveStep(1)

NextLine == LineMove \/ Turn(1)

SpecLine == InitLine /\ [][NextLine]_vars

---------------------------------------------------------------------------
(* AirUnit::turn called again and again with a fixed destination heading *)

\* the turn speeds of the harness: a fraction of a ring unit, speeds that do
\* not divide the arcs, and half the ring
ArcSpeeds == {1, 3, One + 1, Ring \div 2}

\* enough steps to turn half the ring at the lowest speed, and a few more
ArcSteps == Ring \div 2 + MaxTurnSteps

InitArc ==
    /\ objectData = TheTable
    /\ unit = (1 :> Deployed(Fix(TILESIZE \div 2), Fix(TILESIZE \div 2), 0,
                             InvalidCoord, FALSE, <<TRUE, TRUE>>, 0,
                             objectData, 1, 1))
    /\ \E h \in Headings, d \in Headings, t \in ArcSpeeds :
          turnSt = [angle |-> h, drawnAngle |-> DrawnAngleOf(h), dest |-> d,
                    speed |-> t, prev |-> h, destValid |-> TRUE,
                    timer |-> 0, steps |-> 0, start |-> h, toward |-> 0]
    /\ EnvInit

\* one call of AirUnit::turn of a unit with a valid destination; the harness
\* stops after a call made while the weapon was reloading
ArcTurn(timer) ==
    /\ turnSt.steps < ArcSteps
    /\ turnSt.steps = turnSt.toward
    /\ LET a == TurnAngle(turnSt.angle, TRUE, timer, ReloadTime,
                          turnSt.dest, turnSt.speed)
       IN turnSt' = [turnSt EXCEPT
                        !.angle = a,
                        !.drawnAngle = DrawnAngleOf(a),
                        !.prev = turnSt.angle,
                        !.timer = timer,
                        !.steps = turnSt.steps + 1,
                        !.toward = IF TurnsTowardDestination(TRUE, timer,
                                                             ReloadTime)
                                   THEN @ + 1 ELSE @]
    /\ UNCHANGED <<gui, unit, objectData, mapSize, calc, explored,
                   tileAir, tileDead, explosionList,
                   soundLog, mapError, cycle, sched, orders, stream, loaded,
                   query, crashed, last>>

NextArc == \E timer \in {0, ReloadTime} : ArcTurn(timer)

SpecArc == InitArc /\ [][NextArc]_vars

---------------------------------------------------------------------------
(* Two ornithopters that start with the same position, heading, destination, *)
(* guard point and weapon timer; they may differ in what else they hold      *)

HealthValues == {100, 40}

InitTwin ==
    /\ objectData \in Tables
    /\ \E x \in StartX, y \in StartY, a \in StartAngles,
          d \in StartDestinations, timer \in {0, ReloadTime},
          tgt1 \in BOOLEAN, tgt2 \in BOOLEAN, h \in HealthValues :
            unit = (1 :> Deployed(x, y, a, d, tgt1, <<TRUE, TRUE>>, timer,
                                  objectData, 1, 1)) @@
                   (2 :> [Deployed(x, y, a, d, tgt2, <<TRUE, TRUE>>, timer,
                                   objectData, 2, 1) EXCEPT !.health = h])
    /\ turnSt = TurnIdle
    /\ EnvInit

NextTwin ==
    \/ \E id \in DOMAIN unit : Move(id)
    \/ \E id \in DOMAIN unit : Turn(id)

SpecTwin == InitTwin /\ [][NextTwin]_vars

---------------------------------------------------------------------------
(* The angle functions of mmath.h, applied to one input each *)

AngleShift == 5

DrawnAngleMask == 7

RIGHTUP == 1

DOWN == 6

\* lround(angle >> 5) with the shift applied to the value that is rounded:
\* angle / 32 to the nearest integer
LRoundShifted(angle) ==
    LET one == One * Pow2(AngleShift)
    IN IF angle >= 0 THEN (2 * angle + one) \div (2 * one)
                     ELSE -((2 * (-angle) + one) \div (2 * one))

\* n & 0x7 of a two's complement int: the three lowest bits
MaskLowBits(n) == n % (DrawnAngleMask + 1)

\* angleToDrawnAngle(angle) of a FixPoint angle in 256-units
AngleToDrawnAngle(angle) == MaskLowBits(LRoundShifted(angle))

\* the difference without the way around the ring
AngleDiffNoWrap(angle1, angle2) == Abs(angle1 - angle2)

\* angleDiff(angle1, angle2) of two ints
AngleDiff(angle1, angle2) ==
    LET diff == Abs(angle1 - angle2)
    IN Min(diff, NUM_ANGLES - diff)

\* FixPoint angles from one turn below 0 to two turns above
AngleInputs == (-(256 * One)) .. (512 * One)

Directions == 0 .. (NUM_ANGLES - 1)

InitMath ==
    /\ objectData = TheTable
    /\ unit = (1 :> Deployed(Fix(TILESIZE \div 2), Fix(TILESIZE \div 2), 0,
                             InvalidCoord, FALSE, <<TRUE, TRUE>>, 0,
                             objectData, 1, 1))
    /\ turnSt = TurnIdle
    /\ EnvOf([x |-> MapW, y |-> MapH])
    /\ \/ \E a \in AngleInputs :
             calc = [fn |-> "angleToDrawnAngle", args |-> <<a>>,
                     done |-> FALSE]
       \/ \E a1 \in Directions, a2 \in Directions :
             calc = [fn |-> "angleDiff", args |-> <<a1, a2>>, done |-> FALSE]

\* angleToDrawnAngle is called with the angle and with the angle one turn on
CallAngleToDrawnAngle ==
    /\ calc.fn = "angleToDrawnAngle"
    /\ ~calc.done
    /\ calc' = [fn |-> calc.fn, args |-> calc.args, done |-> TRUE,
                result |-> AngleToDrawnAngle(calc.args[1]),
                turned |-> AngleToDrawnAngle(calc.args[1] + 256 * One)]
    /\ UNCHANGED <<gui, unit, objectData, mapSize, explored, tileAir, tileDead,
                   explosionList, soundLog, mapError, cycle, sched, orders,
                   stream, loaded, query, crashed, last, turnSt>>

\* angleDiff is called with the two angles in both orders
CallAngleDiff ==
    /\ calc.fn = "angleDiff"
    /\ ~calc.done
    /\ calc' = [fn |-> calc.fn, args |-> calc.args, done |-> TRUE,
                result |-> AngleDiff(calc.args[1], calc.args[2]),
                swapped |-> AngleDiff(calc.args[2], calc.args[1])]
    /\ UNCHANGED <<gui, unit, objectData, mapSize, explored, tileAir, tileDead,
                   explosionList, soundLog, mapError, cycle, sched, orders,
                   stream, loaded, query, crashed, last, turnSt>>

NextMath == CallAngleToDrawnAngle \/ CallAngleDiff

SpecMath == InitMath /\ [][NextMath]_vars

---------------------------------------------------------------------------
(* destroy() step by step: Ornithopter::destroy calls AirUnit::destroy,      *)
(* which calls UnitBase::destroy                                             *)

InitDestroy ==
    /\ objectData \in Tables
    /\ \E a \in {0, Fix(2)}, vis \in Visibilities,
          x \in {Fix(TILESIZE \div 2), Fix(MapW * TILESIZE - 1)} :
            unit = (1 :> Deployed(x, Fix(TILESIZE \div 2), a, InvalidCoord,
                                  FALSE, vis, 0, objectData, 1, 1))
    /\ turnSt = TurnIdle
    /\ EnvInit

\* Ornithopter::destroy up to its call of AirUnit::destroy: the wreck
OrnithopterDestroy(id) ==
    /\ AtBoundary
    /\ orders < MaxCalls
    /\ id \in Live(unit)
    /\ tileDead' = PlaceWreck(tileDead, unit[id], id)
    /\ sched' = [who |-> id, phase |-> "airDestroy"]
    /\ orders' = orders + 1
    /\ last' = Call("destroy", id)
    /\ UNCHANGED <<gui, unit, objectData, mapSize, calc, explored, tileAir,
                   explosionList, soundLog, mapError, cycle, stream, loaded,
                   query, crashed, turnSt>>

\* AirUnit::destroy up to its call of UnitBase::destroy: explosion and sound
AirUnitDestroy(id) ==
    /\ sched = [who |-> id, phase |-> "airDestroy"]
    /\ explosionList' = IF RequestsExplosion(unit[id])
                        THEN Append(explosionList, id) ELSE explosionList
    /\ soundLog' = IF PlaysSound(unit[id]) THEN Append(soundLog, id)
                                           ELSE soundLog
    /\ sched' = [who |-> id, phase |-> "baseDestroy"]
    /\ UNCHANGED <<gui, unit, objectData, mapSize, calc, explored, tileAir,
                   tileDead, mapError, cycle, orders, stream, loaded, query,
                   crashed, last, turnSt>>

\* UnitBase::destroy: the object is removed from the map
UnitBaseDestroy(id) ==
    /\ sched = [who |-> id, phase |-> "baseDestroy"]
    /\ tileAir' = RemoveObjectFromMap(tileAir, id)
    /\ sched' = [who |-> id, phase |-> "release"]
    /\ UNCHANGED <<gui, unit, objectData, mapSize, calc, explored, tileDead,
                   explosionList, soundLog, mapError, cycle, orders, stream,
                   loaded, query, crashed, last, turnSt>>

\* UnitBase::destroy: the object is released, and the game loop goes on
Release(id) ==
    /\ sched = [who |-> id, phase |-> "release"]
    /\ unit' = [unit EXCEPT ![id].released = TRUE]
    /\ LET live == Live(unit')
       IN sched' = IF live = {} THEN [who |-> id, phase |-> "move"]
                   ELSE [who |-> MinOf(live), phase |-> "move"]
    /\ UNCHANGED <<gui, objectData, mapSize, calc, explored, tileAir, tileDead,
                   explosionList, soundLog, mapError, cycle, orders, stream,
                   loaded, query, crashed, last, turnSt>>

NextDestroy ==
    \/ \E id \in DOMAIN unit : Move(id)
    \/ \E id \in DOMAIN unit : Turn(id)
    \/ \E id \in DOMAIN unit : OrnithopterDestroy(id)
    \/ \E id \in DOMAIN unit : AirUnitDestroy(id)
    \/ \E id \in DOMAIN unit : UnitBaseDestroy(id)
    \/ \E id \in DOMAIN unit : Release(id)

SpecDestroy == InitDestroy /\ [][NextDestroy]_vars

---------------------------------------------------------------------------
(* Two ornithopters in neighbouring tiles of the same map *)

\* Ornithopter::canPass: the tile exists and has no air unit
CanPass(air, xPos, yPos) ==
    TileExists(xPos, yPos) /\ ~(\E p \in air : p[1] = <<xPos, yPos>>)

\* the first unit in tile column 0, the second in tile column 1
InitFleet ==
    /\ objectData \in Tables
    /\ \E x1 \in {Fix(1), Fix(TILESIZE) - (5 * One) \div 2},
          x2 \in {Fix(TILESIZE + 1), Fix(2 * TILESIZE - 1)},
          y1 \in StartY, y2 \in StartY,
          a1 \in {0, One, Fix(4)}, a2 \in {0, Fix(4)},
          d \in StartDestinations :
            unit = (1 :> Deployed(x1, y1, a1, d, FALSE, <<TRUE, TRUE>>, 0,
                                  objectData, 1, 1)) @@
                   (2 :> Deployed(x2, y2, a2, InvalidCoord, FALSE,
                                  <<TRUE, TRUE>>, 0, objectData, 2, 1))
    /\ turnSt = TurnIdle
    /\ EnvInit

SpecFleet == InitFleet /\ [][NextTwin]_vars

---------------------------------------------------------------------------
(* AirUnit::turn with the turn speeds a balance table can hold *)

\* table turn speeds up to and beyond eight times the ring, where the step of
\* the branch without a usable destination is longer than the ring
SpinSpeeds == {0, One \div 2, Fix(2), 8 * Ring, 8 * Ring + 8, 16 * Ring}

InitSpin ==
    /\ objectData = TheTable
    /\ unit = (1 :> Deployed(Fix(TILESIZE \div 2), Fix(TILESIZE \div 2), 0,
                             InvalidCoord, FALSE, <<TRUE, TRUE>>, 0,
                             objectData, 1, 1))
    /\ \E h \in Headings, d \in Headings, t \in SpinSpeeds :
          turnSt = [angle |-> h, drawnAngle |-> DrawnAngleOf(h), dest |-> d,
                    speed |-> t, prev |-> h, destValid |-> FALSE,
                    timer |-> 0, steps |-> 0]
    /\ EnvInit

SpecSpin == InitSpin /\ [][NextTurn]_vars

---------------------------------------------------------------------------
(* An ornithopter that flies onto the map across its far edge *)

\* just beyond the far edge of the map, and inside its last column
EntryX == {Fix(MapW * TILESIZE) + One \div 2, Fix(MapW * TILESIZE) - Fix(4)}

\* just below the boundary between the two upper tile rows
EntryY == {Fix(TILESIZE) + (5 * One) \div 2, Fix(TILESIZE) + Fix(20)}

\* an ornithopter placed at (x, y): assignToMap has set its guard point if
\* there is a tile at (x, y), and has done nothing if there is none
Arriving(x, y, a, d, table, id) ==
    LET u == Deployed(x, y, a, d, FALSE, <<TRUE, TRUE>>, 0, table, id, 1)
    IN [u EXCEPT !.guardPoint =
            IF TileExists(u.location[1], u.location[2]) THEN @
                                                        ELSE InvalidCoord]

InitEntry ==
    /\ objectData \in Tables
    /\ mapSize = [x |-> MapW, y |-> MapH]
    /\ \E x \in EntryX, y \in EntryY, a \in {Fix(3), Fix(4)},
          d \in {InvalidCoord, Coord(0, 0)} :
            unit = (1 :> Arriving(x, y, a, d, objectData, 1))
    /\ turnSt = TurnIdle
    /\ EnvInit

SpecEntry == InitEntry /\ [][Next]_vars

---------------------------------------------------------------------------
(* PictureLabel: the texture it shows and whether it destroys it *)

\* the null pointer
NULL == 0

\* the textures of the callers, and those that setSurface makes from surfaces
CallerTextures == 1 .. NumTextures

AllTextures == 1 .. (NumTextures + MaxLabelCalls)

\* PictureLabel::PictureLabel(); destroyed counts the calls of
\* SDL_DestroyTexture per texture, handed holds the <<texture, bFreeTexture>>
\* pairs given to the label, ub tells whether the last call used a texture
\* after it was destroyed
NewLabel(visible) ==
    [alive |-> TRUE, pTexture |-> NULL, bFreeTexture |-> FALSE,
     visible |-> visible, destroyed |-> [t \in AllTextures |-> 0],
     handed |-> {}, made |-> 0, calls |-> 0, ub |-> FALSE, crashed |-> FALSE]

\* SDL_DestroyTexture(this->pTexture); this->pTexture = NULL, if the label owns
\* a texture
FreeOwnedTexture(l) ==
    IF l.bFreeTexture /\ l.pTexture # NULL
    THEN [l EXCEPT !.destroyed[l.pTexture] = @ + 1,
                   !.pTexture = NULL,
                   !.ub = l.destroyed[l.pTexture] > 0]
    ELSE [l EXCEPT !.ub = FALSE]

\* PictureLabel::setTexture: the old texture is freed, the new one is stored
\* and its size is read
SetTexture(l, pTexture, bFreeTexture) ==
    LET f == FreeOwnedTexture(l)
    IN [f EXCEPT !.pTexture = pTexture,
                 !.bFreeTexture = bFreeTexture,
                 !.ub = @ \/ (pTexture # NULL /\ f.destroyed[pTexture] > 0)]

\* PictureLabel::draw: SDL_RenderCopy of the texture of a visible label
DrawLabel(l) ==
    [l EXCEPT !.ub = l.visible /\ l.pTexture # NULL
                     /\ l.destroyed[l.pTexture] > 0]

\* PictureLabel::~PictureLabel
DestroyLabel(l) == [FreeOwnedTexture(l) EXCEPT !.alive = FALSE]

\* the outcomes of a call: the use of a destroyed texture is undefined, the
\* program goes on or crashes
Outcomes(l) ==
    LET n == [l EXCEPT !.calls = @ + 1]
    IN IF l.ub THEN {n, [n EXCEPT !.crashed = TRUE]} ELSE {n}

\* the game is not running
GameIdle ==
    /\ objectData = TheTable
    /\ unit = (1 :> Constructed(0, <<TRUE, TRUE>>, objectData, 1, 1))
    /\ turnSt = TurnIdle
    /\ calc = CalcIdle
    /\ EnvGame([x |-> MapW, y |-> MapH])

InitLabel ==
    /\ label \in {NewLabel(v) : v \in BOOLEAN}
    /\ ini = NoIni
    /\ radar = NoRadar
    /\ anim = NoAnim
    /\ fade = NoFade
    /\ GameIdle

LabelUsable == label.alive /\ ~label.crashed /\ label.calls < MaxLabelCalls

\* a caller hands over one of its textures that has not been destroyed, or NULL
CallSetTexture(pTexture, bFreeTexture) ==
    /\ LabelUsable
    /\ pTexture # NULL => label.destroyed[pTexture] = 0
    /\ label' \in Outcomes(
          [SetTexture(label, pTexture, bFreeTexture) EXCEPT
              !.handed = IF pTexture = NULL THEN @
                         ELSE @ \cup {<<pTexture, bFreeTexture>>}])
    /\ UNCHANGED <<game, ini, radar, anim, fade>>

\* setSurface: convertSurfaceToTexture makes a new texture, which the label owns
CallSetSurface ==
    /\ LabelUsable
    /\ LET pTexture == NumTextures + label.made + 1
       IN label' \in Outcomes(
             [SetTexture(label, pTexture, TRUE) EXCEPT
                 !.handed = @ \cup {<<pTexture, TRUE>>},
                 !.made = @ + 1])
    /\ UNCHANGED <<game, ini, radar, anim, fade>>

CallDraw ==
    /\ LabelUsable
    /\ label' \in Outcomes(DrawLabel(label))
    /\ UNCHANGED <<game, ini, radar, anim, fade>>

CallDestroyLabel ==
    /\ label.alive /\ ~label.crashed
    /\ label' \in Outcomes(DestroyLabel(label))
    /\ UNCHANGED <<game, ini, radar, anim, fade>>

NextLabel ==
    \/ \E t \in CallerTextures \cup {NULL}, f \in BOOLEAN : CallSetTexture(t, f)
    \/ CallSetSurface
    \/ CallDraw
    \/ CallDestroyLabel

SpecLabel == InitLabel /\ [][NextLabel]_vars

---------------------------------------------------------------------------
(* INIMap::checkFeatures: the FEATURES section of a scenario file *)

\* the values a key of the section can have in the file
FeatureValues == {"true", "false", ""}

\* INIFile::Key::getBoolValue(defaultValue): the value if it is a boolean,
\* the default if it cannot be read as one
GetBoolValue(key, defaultValue) ==
    IF key.value = "true" THEN TRUE
    ELSE IF key.value = "false" THEN FALSE
    ELSE defaultValue

\* the sections of a scenario file: FEATURES is missing, or holds up to
\* MaxKeys keys on consecutive lines after its header on line FirstLine
FeatureSections ==
    UNION {[1 .. n -> FeatureValues] : n \in 0 .. MaxKeys}

KeysOf(values, firstLine) ==
    [i \in DOMAIN values |->
        [name |-> i, value |-> values[i], line |-> firstLine + i]]

\* the test of the loop with getBoolValue(false)
UnsupportedUnlessUnreadable(keys) ==
    {i \in DOMAIN keys : GetBoolValue(keys[i], FALSE) = TRUE}

\* the positions of the keys for which the test of the loop is true
Unsupported(keys) ==
    {i \in DOMAIN keys : GetBoolValue(keys[i], TRUE) = TRUE}

\* INIMap::checkFeatures: the outcome, an exception of logError(line, ...) for
\* the first key that is true, or a plain return
CheckFeatures(file) ==
    IF ~file.hasSection
    THEN [thrown |-> FALSE]
    ELSE LET bad == Unsupported(file.keys)
         IN IF bad = {}
            THEN [thrown |-> FALSE]
            ELSE LET i == MinOf(bad)
                 IN [thrown |-> TRUE, mapname |-> file.mapname,
                     line |-> file.keys[i].line, key |-> file.keys[i].name]

InitIni ==
    /\ \/ ini = [loaded |-> TRUE, mapname |-> "map", hasSection |-> FALSE,
                 keys |-> << >>, checked |-> FALSE]
       \/ \E values \in FeatureSections, firstLine \in {1, MaxKeys} :
             ini = [loaded |-> TRUE, mapname |-> "map", hasSection |-> TRUE,
                    keys |-> KeysOf(values, firstLine), checked |-> FALSE]
    /\ label = NoLabel
    /\ radar = NoRadar
    /\ anim = NoAnim
    /\ fade = NoFade
    /\ GameIdle

CallCheckFeatures ==
    /\ ini.loaded /\ ~ini.checked
    /\ ini' = [ini EXCEPT !.checked = TRUE] @@ [result |-> CheckFeatures(ini)]
    /\ UNCHANGED <<game, label, radar, anim, fade>>

NextIni == CallCheckFeatures

SpecIni == InitIni /\ [][NextIni]_vars

---------------------------------------------------------------------------
(* RadarView::update and RadarView::switchRadarMode *)

SteadyModes == {"Mode_RadarOff", "Mode_RadarOn"}

AnimationModes == {"Mode_AnimationRadarOn", "Mode_AnimationRadarOff"}

\* the counter steps of one animation
AnimationSteps == (NUM_STATIC_FRAMES - 1) * NUM_STATIC_FRAME_TIME

\* updates after which the mode has settled: two animations, each with the
\* update that ends it
SettleUpdates == 2 * (AnimationSteps + 1)

\* RadarView::RadarView(), with the local house's radar off or on; cues and
\* voice are the calls of switchRadarMode in the last update and the voice it
\* played, prevMode and prevFrame the mode and frame before the last update,
\* since and steps the updates and counter steps since the house's radar
\* last changed
NewRadar(on) ==
    [constructed |-> TRUE, currentRadarMode |-> "Mode_RadarOff",
     animFrame |-> NUM_STATIC_FRAMES - 1, animCounter |-> NUM_STATIC_FRAME_TIME,
     hasRadarOn |-> on, cues |-> 0, voice |-> "none",
     prevMode |-> "Mode_RadarOff", prevFrame |-> NUM_STATIC_FRAMES - 1,
     since |-> 0, steps |-> 0]

\* the test of update that interrupts a running animation of the other
\* direction
SwitchesModeWhileAnimating(mode, on) ==
    IF on THEN mode \notin {"Mode_RadarOn", "Mode_AnimationRadarOn"}
          ELSE mode \notin {"Mode_RadarOff", "Mode_AnimationRadarOff"}

\* the tests of update before its calls of switchRadarMode
SwitchesMode(mode, on) ==
    IF on THEN /\ mode # "Mode_RadarOn"
               /\ mode # "Mode_AnimationRadarOn"
               /\ mode # "Mode_AnimationRadarOff"
          ELSE /\ mode # "Mode_RadarOff"
               /\ mode # "Mode_AnimationRadarOn"
               /\ mode # "Mode_AnimationRadarOff"

\* RadarView::switchRadarMode: the noise, the voice and the animation mode
SwitchRadarMode(r, bOn) ==
    [r EXCEPT !.cues = @ + 1,
              !.voice = IF bOn THEN "RadarActivated" ELSE "RadarDeactivated",
              !.currentRadarMode = IF bOn THEN "Mode_AnimationRadarOn"
                                          ELSE "Mode_AnimationRadarOff"]

\* the end test of the switch-on animation with < in place of <=
AnimationOnDoneBelowZero(animFrame) == animFrame < 0

\* the end tests of the two animations
AnimationOnDone(animFrame) == animFrame <= 0

AnimationOffDone(animFrame) == animFrame >= NUM_STATIC_FRAMES - 1

\* the count-down that does not set the counter back after a frame step
CountDownNoReset(r, frameStep) ==
    LET c == r.animCounter - 1
    IN [r EXCEPT !.animCounter = c,
                 !.animFrame = IF c <= 0 THEN @ + frameStep ELSE @,
                 !.steps = Min(@ + 1, 2 * AnimationSteps + 1)]

\* animCounter--, and the frame step when the counter has run out
CountDown(r, frameStep) ==
    LET c == r.animCounter - 1
    IN [r EXCEPT !.animCounter = IF c <= 0 THEN NUM_STATIC_FRAME_TIME ELSE c,
                 !.animFrame = IF c <= 0 THEN @ + frameStep ELSE @,
                 !.steps = Min(@ + 1, 2 * AnimationSteps + 1)]

\* the switch statement of update
Animate(r) ==
    IF r.currentRadarMode = "Mode_AnimationRadarOff"
    THEN IF AnimationOffDone(r.animFrame)
         THEN [r EXCEPT !.currentRadarMode = "Mode_RadarOff"]
         ELSE CountDown(r, 1)
    ELSE IF r.currentRadarMode = "Mode_AnimationRadarOn"
    THEN IF AnimationOnDone(r.animFrame)
         THEN [r EXCEPT !.currentRadarMode = "Mode_RadarOn"]
         ELSE CountDown(r, -1)
    ELSE r

\* RadarView::update
RadarUpdate(r) ==
    LET start == [r EXCEPT !.cues = 0, !.voice = "none",
                           !.prevMode = r.currentRadarMode,
                           !.prevFrame = r.animFrame,
                           !.since = Min(@ + 1, SettleUpdates)]
    IN Animate(IF SwitchesMode(r.currentRadarMode, r.hasRadarOn)
               THEN SwitchRadarMode(start, r.hasRadarOn)
               ELSE start)

InitRadar ==
    /\ radar \in {NewRadar(on) : on \in BOOLEAN}
    /\ label = NoLabel
    /\ ini = NoIni
    /\ anim = NoAnim
    /\ fade = NoFade
    /\ GameIdle

\* the game calls update once per frame
CallUpdate ==
    /\ radar.constructed
    /\ radar' = RadarUpdate(radar)
    /\ UNCHANGED <<game, label, ini, anim, fade>>

\* the local house gains or loses its radar between two frames
RadarChanges ==
    /\ radar.constructed
    /\ radar' = [radar EXCEPT !.hasRadarOn = ~@, !.since = 0, !.steps = 0]
    /\ UNCHANGED <<game, label, ini, anim, fade>>

NextRadar == CallUpdate \/ RadarChanges

SpecRadar == InitRadar /\ [][NextRadar]_vars

\* update is called in every frame of the running game
SpecRadarFair == SpecRadar /\ WF_vars(CallUpdate)

---------------------------------------------------------------------------
(* Animation: the current frame, the loops left and the frame override *)

\* ((unsigned int) -1), the value that is no frame: no override is set. It
\* is only ever compared for equality, so it is kept as -1
INVALID_FRAME == -1

\* no frame or texture has been read by the last call
NoAccess == [call |-> "none", elapsed |-> FALSE, prevFrame |-> 0,
             prevLoops |-> -1, index |-> INVALID_FRAME, null |-> FALSE,
             oob |-> FALSE]

\* Animation::Animation() followed by addFrame for each of the frames and
\* setNumLoops(loops); passes counts how often the end of the frame list was
\* reached, last describes the last call
NewAnimation(frames, loops) ==
    [constructed |-> TRUE, frames |-> frames, textures |-> 0, curFrame |-> 0,
     curFrameOverride |-> INVALID_FRAME, loopsLeft |-> loops, loops |-> loops,
     passes |-> 0, crashed |-> FALSE, last |-> NoAccess]

\* the frame step of a finite animation that starts again after its last pass
AdvanceFrameRewinding(a) ==
    LET next == a.curFrame + 1
    IN IF a.loopsLeft = -1
       THEN [a EXCEPT !.curFrame = IF next >= a.frames THEN 0 ELSE next,
                      !.passes = IF next >= a.frames
                                 THEN Min(@ + 1, MaxLoops + 1) ELSE @]
       ELSE IF a.loopsLeft >= 1
       THEN IF next >= a.frames
            THEN [a EXCEPT !.loopsLeft = @ - 1, !.curFrame = 0,
                           !.passes = Min(@ + 1, MaxLoops + 1)]
            ELSE [a EXCEPT !.curFrame = next]
       ELSE a

\* getCurrentFrameNumber, the step made when the frame's time is over
AdvanceFrame(a) ==
    LET next == a.curFrame + 1
    IN IF a.loopsLeft = -1
       THEN [a EXCEPT !.curFrame = IF next >= a.frames THEN 0 ELSE next,
                      !.passes = IF next >= a.frames
                                 THEN Min(@ + 1, MaxLoops + 1) ELSE @]
       ELSE IF a.loopsLeft >= 1
       THEN IF next >= a.frames
            THEN [a EXCEPT !.loopsLeft = @ - 1,
                           !.curFrame = IF a.loopsLeft - 1 > 0 THEN 0
                                                               ELSE next - 1,
                           !.passes = Min(@ + 1, MaxLoops + 1)]
            ELSE [a EXCEPT !.curFrame = next]
       ELSE a

\* the value getCurrentFrameNumber returns, without the test of the override
FrameNumberIgnoringOverride(a) == a.curFrame

\* the value getCurrentFrameNumber returns
FrameNumber(a) ==
    IF a.curFrameOverride # INVALID_FRAME THEN a.curFrameOverride
                                          ELSE a.curFrame

\* Animation::getCurrentFrameNumber; elapsed tells whether more than
\* frameDurationTime ticks have passed since the current frame started
GetCurrentFrameNumber(a, elapsed) ==
    LET b == IF elapsed THEN AdvanceFrame(a) ELSE a
    IN [b EXCEPT !.last = [call |-> "getCurrentFrameNumber",
                           elapsed |-> elapsed, prevFrame |-> a.curFrame,
                           prevLoops |-> a.loopsLeft, index |-> FrameNumber(b),
                           null |-> FALSE, oob |-> FALSE]]

\* Animation::getFrame: null without frames, else frames[index]
GetFrame(a, elapsed) ==
    IF a.frames = 0
    THEN [a EXCEPT !.last = [NoAccess EXCEPT !.call = "getFrame",
                                            !.prevFrame = a.curFrame,
                                            !.prevLoops = a.loopsLeft,
                                            !.null = TRUE]]
    ELSE LET b == GetCurrentFrameNumber(a, elapsed)
         IN [b EXCEPT !.last.call = "getFrame",
                      !.last.oob = b.last.index >= b.frames]

\* Animation::getFrameTexture: null without frames, else frameTextures[index]
\* after frameTextures has been resized to the number of frames if it was
\* too short
GetFrameTexture(a, elapsed) ==
    IF a.frames = 0
    THEN [a EXCEPT !.last = [NoAccess EXCEPT !.call = "getFrameTexture",
                                            !.prevFrame = a.curFrame,
                                            !.prevLoops = a.loopsLeft,
                                            !.null = TRUE]]
    ELSE LET b == GetCurrentFrameNumber(a, elapsed)
             index == b.last.index
             size == IF b.textures <= index THEN b.frames ELSE b.textures
         IN [b EXCEPT !.textures = size,
                      !.last.call = "getFrameTexture",
                      !.last.oob = index >= size \/ index >= b.frames]

\* Animation::addFrame
AddFrame(a) == [a EXCEPT !.frames = @ + 1, !.last = NoAccess]

\* an access beyond the end of a vector is undefined: the program goes on
\* with what it read, or crashes
AnimationOutcomes(a) ==
    IF a.last.oob THEN {a, [a EXCEPT !.crashed = TRUE]} ELSE {a}

AnimationUsable == anim.constructed /\ ~anim.crashed

CallGetCurrentFrameNumber(elapsed) ==
    /\ AnimationUsable
    /\ anim' = GetCurrentFrameNumber(anim, elapsed)
    /\ UNCHANGED <<game, label, ini, radar, fade>>

CallGetFrame(elapsed) ==
    /\ AnimationUsable
    /\ anim' \in AnimationOutcomes(GetFrame(anim, elapsed))
    /\ UNCHANGED <<game, label, ini, radar, fade>>

CallGetFrameTexture(elapsed) ==
    /\ AnimationUsable
    /\ anim' \in AnimationOutcomes(GetFrameTexture(anim, elapsed))
    /\ UNCHANGED <<game, label, ini, radar, fade>>

CallAddFrame ==
    /\ AnimationUsable
    /\ anim.frames < MaxFrames
    /\ anim' = AddFrame(anim)
    /\ UNCHANGED <<game, label, ini, radar, fade>>

\* setCurrentFrameOverride(frame) and resetFrameOverride()
CallSetCurrentFrameOverride(frame) ==
    /\ AnimationUsable
    /\ anim' = [anim EXCEPT !.curFrameOverride = frame, !.last = NoAccess]
    /\ UNCHANGED <<game, label, ini, radar, fade>>

\* an animation with its frames loaded, played without further changes
InitLoop ==
    /\ anim \in {NewAnimation(f, n) :
                    f \in 1 .. MaxFrames, n \in {-1} \cup (0 .. MaxLoops)}
    /\ label = NoLabel /\ ini = NoIni /\ radar = NoRadar /\ fade = NoFade
    /\ GameIdle

NextLoop ==
    \E elapsed \in BOOLEAN :
        \/ CallGetCurrentFrameNumber(elapsed)
        \/ CallGetFrame(elapsed)
        \/ CallGetFrameTexture(elapsed)

SpecLoop == InitLoop /\ [][NextLoop]_vars

\* the animation is drawn in every frame of the program, and the ticks of
\* SDL_GetTicks go on: calls that find the frame's time over keep coming
FrameTimeOver ==
    \/ CallGetCurrentFrameNumber(TRUE)
    \/ CallGetFrame(TRUE)
    \/ CallGetFrameTexture(TRUE)

SpecLoopFair == SpecLoop /\ WF_vars(FrameTimeOver)

\* an animation that is filled and read in any order, with or without a
\* frame override
InitAnimation ==
    /\ anim \in {NewAnimation(0, n) : n \in {-1, 1, MaxLoops}}
    /\ label = NoLabel /\ ini = NoIni /\ radar = NoRadar /\ fade = NoFade
    /\ GameIdle

NextAnimation ==
    \/ \E elapsed \in BOOLEAN : CallGetCurrentFrameNumber(elapsed)
    \/ \E elapsed \in BOOLEAN : CallGetFrame(elapsed)
    \/ \E elapsed \in BOOLEAN : CallGetFrameTexture(elapsed)
    \/ CallAddFrame
    \/ \E frame \in (0 .. MaxFrames) \cup {INVALID_FRAME} :
          CallSetCurrentFrameOverride(frame)

SpecAnimation == InitAnimation /\ [][NextAnimation]_vars

---------------------------------------------------------------------------
(* FadeOutVideoEvent: the frames of a fade and the alpha of each draw *)

\* FadeOutVideoEvent::FadeOutVideoEvent; draws counts the calls of draw,
\* alpha and prevAlpha are the values of the last two of them, late tells
\* that the last draw was made when the event was finished, divByZero that a
\* draw has divided by zero
NewFade(numFrames2FadeOut, bFadeWhite) ==
    [constructed |-> TRUE, numFrames2FadeOut |-> numFrames2FadeOut,
     bFadeWhite |-> bFadeWhite, currentFrame |-> 0, draws |-> 0,
     alpha |-> -1, prevAlpha |-> -1, late |-> FALSE, anyLate |-> FALSE,
     divByZero |-> FALSE, crashed |-> FALSE, finished |-> "unknown"]

\* FadeOutVideoEvent::isFinished
IsFinished(f) == f.currentFrame >= f.numFrames2FadeOut

\* the alpha draw computes from the quotient 255*currentFrame/numFrames2FadeOut
Alpha(f, quotient) ==
    IF ~f.bFadeWhite THEN 255 - quotient ELSE quotient

\* the integer division of draw: by zero it is undefined, the program is
\* stopped by the trap of the division or goes on with some quotient
Quotients(f) ==
    IF f.numFrames2FadeOut = 0
    THEN {[trap |-> TRUE, value |-> 0]}
             \cup {[trap |-> FALSE, value |-> q] : q \in {0, -1}}
    ELSE {[trap |-> FALSE,
           value |-> TruncDiv(255 * f.currentFrame, f.numFrames2FadeOut)]}

\* FadeOutVideoEvent::draw with the given outcome of its division
Draw(f, quotient) ==
    LET g == [f EXCEPT !.draws = @ + 1,
                       !.late = IsFinished(f),
                       !.anyLate = @ \/ IsFinished(f),
                       !.divByZero = @ \/ f.numFrames2FadeOut = 0,
                       !.finished = "unknown"]
    IN IF quotient.trap
       THEN [g EXCEPT !.crashed = TRUE]
       ELSE [g EXCEPT !.prevAlpha = f.alpha,
                      !.alpha = Alpha(f, quotient.value),
                      !.currentFrame = @ + 1]

FadeUsable == fade.constructed /\ ~fade.crashed

CallFadeDraw ==
    /\ FadeUsable
    /\ fade.draws < MaxFadeDraws
    /\ \E quotient \in Quotients(fade) : fade' = Draw(fade, quotient)
    /\ UNCHANGED <<game, label, ini, radar, anim>>

CallIsFinished ==
    /\ FadeUsable
    /\ fade' = [fade EXCEPT !.finished = IF IsFinished(fade) THEN "true"
                                                             ELSE "false"]
    /\ UNCHANGED <<game, label, ini, radar, anim>>

InitFade ==
    /\ fade \in {NewFade(n, white) : n \in 0 .. MaxFadeFrames,
                                     white \in BOOLEAN}
    /\ label = NoLabel /\ ini = NoIni /\ radar = NoRadar /\ anim = NoAnim
    /\ GameIdle

NextFade ==
    \/ CallFadeDraw
    \/ CallIsFinished

SpecFade == InitFade /\ [][NextFade]_vars

---------------------------------------------------------------------------
(* The claims *)

\* the tiles in whose air slot unit id is registered
TilesOf(id) == {p[1] : p \in {q \in tileAir : q[2] = id}}

OnMap(loc) == TileExists(loc[1], loc[2])

\* C1 as stated: after every move tick the unit is registered in the air slot
\* of exactly one tile, also when the tick carried it to where no tile exists
C1_ExactlyOneTile ==
    \A id \in Live(unit) : Cardinality(TilesOf(id)) = 1

\* C1 amended: the unit is registered in at most one tile, namely the tile of
\* its location when that tile exists, and in no tile when it does not
C1_AtMostOneTile ==
    \A id \in Live(unit) :
        TilesOf(id) = IF OnMap(unit[id].location) THEN {unit[id].location}
                                                  ELSE {}

\* a move tick has carried the unit off the map, where it is registered nowhere
C1_Witness ==
    /\ last.op = "move"
    /\ OnMap(last.unit.location)
    /\ ~OnMap(unit[last.id].location)
    /\ TilesOf(last.id) = {}

\* the heading step of the last harness call went toward the destination
Toward ==
    turnSt.steps > 0 /\ turnSt.destValid /\ 3 * turnSt.timer <= ReloadTime

\* C2: a turn step toward the destination heading never overshoots: the
\* angular distance after it is max(0, distance before - turn speed)
C2_NoOvershoot ==
    Toward =>
        LET distBefore == AngleDist(turnSt.prev, turnSt.dest)
            distAfter == AngleDist(turnSt.angle, turnSt.dest)
        IN /\ distAfter <= distBefore
           /\ distAfter = Max(0, distBefore - turnSt.speed)

\* a step toward the destination that crossed the ring boundary and has not
\* arrived yet
C2_Witness ==
    /\ Toward
    /\ turnSt.speed > 0
    /\ turnSt.angle = turnSt.prev + turnSt.speed - Ring
    /\ turnSt.angle # turnSt.dest

\* the destination heading is directly behind the heading before the step
Tie == Toward /\ 2 * Abs(turnSt.prev - turnSt.dest) = Ring

\* C3 as stated: on an exact tie the heading is decreased (right turn)
C3_TieTurnsRight ==
    Tie => turnSt.angle = (turnSt.prev - Min(turnSt.speed, Ring \div 2)) % Ring

\* C3 amended: on an exact tie the heading is increased (left turn), wrapping
\* at the end of the ring
C3_TieTurnsLeft ==
    Tie => turnSt.angle = (turnSt.prev + Min(turnSt.speed, Ring \div 2)) % Ring

\* a tie with a turn speed that tells the two directions apart
C3_Witness ==
    /\ Tie
    /\ turnSt.speed > 0
    /\ turnSt.speed < Ring \div 2
    /\ turnSt.angle = (turnSt.prev + turnSt.speed) % Ring

\* the tile k that holds coordinate r: r rounded to the nearest integer, halves
\* away from zero, divided by TILESIZE toward zero
RoundedTile(r, k) ==
    /\ 2 * Abs(k) * TILESIZE * One <= 2 * Abs(r) + One
    /\ 2 * Abs(r) + One < 2 * (Abs(k) + 1) * TILESIZE * One
    /\ r >= 0 => k >= 0
    /\ r < 0 => k <= 0

\* floor(r / TILESIZE)
FloorTile(r) == Floor(r) \div TILESIZE

\* r is not negative and at least half a unit below the next tile boundary
AwayFromBoundary(r) ==
    r >= 0 /\ 2 * (r % Fix(TILESIZE)) + One < 2 * Fix(TILESIZE)

C6_RoundTrip ==
    loaded.built => loaded.fields = loaded.from

\* the number of entries of a log that belong to unit id
CountOf(log, id) == Cardinality({i \in 1 .. Len(log) : log[i] = id})

WrecksOf(id) == Cardinality({i \in 1 .. Len(tileDead) : tileDead[i].id = id})

\* C7: whatever the number of destroy() calls, each death effect of a unit
\* (explosion, sound, wreck) is emitted at most once
C7_EffectsAtMostOnce ==
    \A id \in DOMAIN unit :
        /\ CountOf(explosionList, id) <= 1
        /\ CountOf(soundLog, id) <= 1
        /\ WrecksOf(id) <= 1

\* the team of the unit that asked the last canAttack question
Asker == unit[query.by].team

\* C8 as stated: the exception type lifts the not-flying condition
C8_ExceptionLiftsFlying ==
    query.asked =>
        (query.result <=>
            /\ ~query.object.null
            /\ (~query.object.flying \/ query.object.sandworm)
            /\ query.object.team # Asker
            /\ Asker \in query.object.visibleTo)

\* C8 amended: canAttack is true iff the candidate is not null, is not a
\* flying unit, is of another team or is a sandworm, and is visible to the
\* unit's team
C8_ExceptionLiftsTeam ==
    query.asked =>
        IF query.object.null \/ query.object.flying
           \/ Asker \notin query.object.visibleTo
        THEN query.result = FALSE
        ELSE query.result = (query.object.sandworm \/ query.object.team # Asker)

\* a visible sandworm of the unit's own team is targetable
C8_Witness ==
    /\ query.asked
    /\ query.result
    /\ query.object.sandworm
    /\ query.object.team = Asker

\* C9: assignToMap for a tile that does not exist changes no air slot and no
\* guard point, getTile is never called for a missing tile, and no wreck is
\* placed on a missing tile
C9_NoTileNoEffect ==
    /\ ~mapError
    /\ \A p \in tileAir : OnMap(p[1])
    /\ \A i \in 1 .. Len(tileDead) : OnMap(tileDead[i].pos)
    /\ \A id \in DOMAIN unit :
        (/\ last.op \in {"move", "deploy"}
         /\ last.id = id
         /\ unit[id].location # last.unit.location
         /\ ~OnMap(unit[id].location)) =>
            /\ unit[id].guardPoint = last.unit.guardPoint
            /\ tileAir = last.air \ {<<last.unit.location, id>>}

\* a unit without guard point was assigned to a tile beyond the map's edge
C9_Witness ==
    /\ last.op = "deploy"
    /\ ~OnMap(unit[last.id].location)
    /\ ~last.unit.guardPoint.valid
    /\ ~unit[last.id].guardPoint.valid
    /\ tileAir = {}

\* the unit is within reach of the destination it had before the move
ReachedBy(id) ==
    /\ last.op = "move"
    /\ last.id = id
    /\ last.unit.destination.valid
    /\ BlockDistance(unit[id].location[1], unit[id].location[2],
                     last.unit.destination.x, last.unit.destination.y)
          <= Fix(ReachDistance)

\* C10 as stated: a move tick that ends within block distance 2 of the valid
\* destination invalidates it, whatever the unit's state
C10_ReachedInvalidates ==
    \A id \in DOMAIN unit :
        ReachedBy(id) => ~unit[id].destination.valid

\* C10 amended: it does so for a unit without attack target; a unit with an
\* attack target keeps its destination
C10_ReachedInvalidatesWithoutTarget ==
    \A id \in DOMAIN unit :
        ReachedBy(id) =>
            IF unit[id].target
            THEN unit[id].destination = last.unit.destination
            ELSE ~unit[id].destination.valid

\* a unit without target ended a move tick exactly 2 tiles from its destination
C10_Witness ==
    /\ ReachedBy(last.id)
    /\ ~unit[last.id].target
    /\ ~unit[last.id].destination.valid
    /\ BlockDistance(unit[last.id].location[1], unit[last.id].location[2],
                     last.unit.destination.x, last.unit.destination.y)
          = Fix(ReachDistance)

\* unit id has just ended a move tick that it began without valid destination
Undirected(id) ==
    last.op = "move" /\ last.id = id /\ ~last.unit.destination.valid

\* the block distance of unit id from its guard point
GuardDrift(id) ==
    BlockDistance(unit[id].location[1], unit[id].location[2],
                  unit[id].guardPoint.x, unit[id].guardPoint.y)

\* C11 as stated: a move tick of a unit without valid destination that ends
\* more than 17 tiles (block distance) from the guard point sets the
\* destination to the guard point, whatever the unit's state; at a distance of
\* at most 17 no destination is set
C11_DriftSetsDestination ==
    \A id \in DOMAIN unit :
        Undirected(id) =>
            IF GuardDrift(id) > Fix(GuardDistance)
            THEN unit[id].destination = unit[id].guardPoint
            ELSE ~unit[id].destination.valid

\* C11 amended: it does so for a unit without attack target; a unit with an
\* attack target, or at a distance of at most 17, gets no destination
C11_DriftSetsDestinationWithoutTarget ==
    \A id \in DOMAIN unit :
        Undirected(id) =>
            IF ~unit[id].target /\ GuardDrift(id) > Fix(GuardDistance)
            THEN unit[id].destination = unit[id].guardPoint
            ELSE ~unit[id].destination.valid

\* a unit without target ended a move tick 17 tiles east and 1 tile south of
\* its guard point, a block distance between 17 and 18, and was sent back
C11_Witness ==
    /\ Undirected(last.id)
    /\ ~unit[last.id].target
    /\ GuardDrift(last.id) > Fix(GuardDistance)
    /\ GuardDrift(last.id) < Fix(GuardDistance + 1)
    /\ unit[last.id].destination = unit[last.id].guardPoint

\* the destination of unit id was valid before the last call and is not now,
\* or the reverse
Invalidated(id) ==
    last.op # "none" /\ last.op # "load" /\ last.id = id
    /\ last.unit.destination.valid /\ ~unit[id].destination.valid

Revalidated(id) ==
    last.op # "none" /\ last.op # "load" /\ last.id = id
    /\ ~last.unit.destination.valid /\ unit[id].destination.valid

\* an invalid destination becomes valid by a new order or by the guard-point
\* drift rule of a move tick only, and stays invalid until then
StaysInvalid ==
    \A id \in DOMAIN unit :
        /\ Revalidated(id) =>
              \/ last.op = "setDestination"
              \/ /\ last.op = "move"
                 /\ unit[id].destination = unit[id].guardPoint
                 /\ GuardDrift(id) > Fix(GuardDistance)
        /\ id \in last.reached => ~unit[id].destination.valid

\* C12 as stated: a unit that has come within the reach threshold of its
\* destination has no valid destination from then on, until a new order or the
\* guard-point drift rule sets one; moving and turning never do
C12_ReachedStaysInvalid ==
    /\ \A id \in DOMAIN unit : ReachedBy(id) => id \in last.reached
    /\ StaysInvalid

\* C12 amended: this holds for a unit without attack target; a unit with an
\* attack target keeps its destination when it comes within reach of it
C12_ReachedStaysInvalidWithoutTarget ==
    /\ \A id \in DOMAIN unit :
          ReachedBy(id) =>
              IF unit[id].target
              THEN unit[id].destination.valid /\ id \notin last.reached
              ELSE id \in last.reached
    /\ StaysInvalid

\* a unit whose destination was invalidated on arrival in an earlier tick has
\* ended a further move tick at most 17 tiles from its guard point, still
\* without destination
C12_Witness ==
    /\ last.op = "move"
    /\ ~last.unit.destination.valid
    /\ last.id \in last.reached
    /\ ~unit[last.id].destination.valid
    /\ GuardDrift(last.id) <= Fix(GuardDistance)

\* position.x has grown in every move tick made with a valid destination, and
\* the heading has stayed 0
StraightAhead ==
    /\ (last.op = "move" /\ last.unit.destination.valid) =>
            unit[1].realX > last.unit.realX
    /\ unit[1].destination.valid => unit[1].angle = 0

\* C13 as stated: position.x increases monotonically, location.x reaches 5
\* within ceil(5*TILESIZE/2) ticks, and the destination is not invalid before
\* location.x has reached 5
C13_InvalidAtFive ==
    /\ StraightAhead
    /\ 2 * Ticks >= 5 * TILESIZE => unit[1].location[1] >= LineDestination.x
    /\ ~unit[1].destination.valid => unit[1].location[1] >= LineDestination.x

\* C13 amended: position.x increases in every tick while the destination is
\* valid, without turning; location.x reaches 3, the column at block distance 2
\* from the destination, within ceil(3*TILESIZE/2) ticks, and the destination
\* becomes invalid in the tick in which location.x becomes 3
C13_InvalidAtThree ==
    /\ StraightAhead
    /\ unit[1].destination.valid =>
            /\ 2 * Ticks < 3 * TILESIZE
            /\ unit[1].location[1] < LineDestination.x - ReachDistance
    /\ ~unit[1].destination.valid =>
            2 * Ticks >= 3 * TILESIZE - TILESIZE
    /\ Invalidated(1) =>
            unit[1].location = <<LineDestination.x - ReachDistance, 0>>

\* the unit that started at the left edge of tile (0,0) has lost its
\* destination in tick ceil(3*TILESIZE/2), on arriving in column 3
C13_Witness ==
    /\ Invalidated(1)
    /\ last.op = "move"
    /\ 2 * Ticks = 3 * TILESIZE
    /\ unit[1].location = <<3, 0>>

\* the shorter arc from the heading the harness started with
ShortArc == AngleDist(turnSt.start, turnSt.dest)

\* after k steps the remaining arc is max(0, shortArc - k * turnSpeed): every
\* step went along the shorter arc, and the unit is aligned after exactly
\* ceil(shortArc / turnSpeed) steps
AlignedAfter(k) ==
    /\ AngleDist(turnSt.angle, turnSt.dest)
          = Max(0, ShortArc - k * turnSt.speed)
    /\ turnSt.angle = turnSt.dest <=> k * turnSt.speed >= ShortArc

\* the heading 200 of 256, in ring units
Heading200 == (200 * Ring) \div 256

\* the first step of the example: from heading 0 toward heading 200 of 256
ExampleStep ==
    /\ turnSt.steps = 1
    /\ turnSt.toward = 1
    /\ turnSt.start = 0
    /\ turnSt.dest = Heading200

\* C14 as stated: a unit with a destination always turns along the shorter arc
\* and is aligned after ceil(shortArc / turnSpeed) steps; from heading 0 to
\* heading 200 of 256 the shorter arc is 56 of 256 and it is a left turn, one
\* that increases the heading
C14_ShorterArcLeft ==
    /\ AlignedAfter(turnSt.steps)
    /\ ExampleStep =>
          /\ ShortArc = (56 * Ring) \div 256
          /\ turnSt.angle = Min(turnSt.speed, ShortArc)

\* C14 amended: this holds for the steps made while the weapon timer is at most
\* a third of the reload time; from heading 0 to heading 200 of 256 the shorter
\* arc is 56 of 256 and it is a right turn, one that decreases the heading
\* through 0
C14_ShorterArcRight ==
    /\ turnSt.steps = turnSt.toward => AlignedAfter(turnSt.toward)
    /\ ExampleStep =>
          /\ ShortArc = (56 * Ring) \div 256
          /\ ShortArc < AngleLeft(turnSt.start, turnSt.dest)
          /\ turnSt.angle = Ring - Min(turnSt.speed, ShortArc)

\* from heading 0 to heading 200 of 256, at a speed that does not divide the
\* arc, the unit has just become aligned, in step ceil(shortArc / turnSpeed)
C14_Witness ==
    /\ turnSt.steps > 0
    /\ turnSt.steps = turnSt.toward
    /\ turnSt.start = 0
    /\ turnSt.dest = Heading200
    /\ ShortArc % turnSt.speed # 0
    /\ turnSt.angle = turnSt.dest
    /\ turnSt.prev # turnSt.dest
    /\ (turnSt.toward - 1) * turnSt.speed < ShortArc
    /\ turnSt.toward * turnSt.speed > ShortArc

\* what a tick computes: position, heading, location, drawnAngle, destination
Outputs(u) == <<u.realX, u.realY, u.angle, u.location, u.drawnAngle,
                u.destination>>

\* both units have made the same number of move and turn steps
SameTicks == sched = [who |-> 1, phase |-> "move"]

RoundedBucket(a) ==
    LET n == CHOOSE k \in -(16 + NUM_ANGLES) .. (16 + NUM_ANGLES) :
                 \/ 2 * Abs(a - 32 * One * k) < 32 * One
                 \/ 2 * Abs(a - 32 * One * k) = 32 * One /\ Abs(k) > Abs(a) \div (32 * One)
    IN n % NUM_ANGLES

\* C16: angleToDrawnAngle(a) = angleToDrawnAngle(a + 256) for every angle a,
\* and the result is round(a / 32) mod 8
C16_WrapsEveryAngle ==
    (calc.fn = "angleToDrawnAngle" /\ calc.done) =>
        /\ calc.result = calc.turned
        /\ calc.result = RoundedBucket(calc.args[1])

\* the fewest steps around the ring, in either direction, from a1 to a2
FewestSteps(a1, a2) ==
    MinOf({k \in Directions : (a1 + k) % NUM_ANGLES = a2
                              \/ (a2 + k) % NUM_ANGLES = a1})

\* angleDiff was called with RIGHTUP and DOWN, in either order
RightUpDown ==
    /\ calc.fn = "angleDiff"
    /\ calc.done
    /\ calc.args \in {<<RIGHTUP, DOWN>>, <<DOWN, RIGHTUP>>}

Emitted(id) ==
    /\ CountOf(explosionList, id) = (IF unit[id].visible THEN 1 ELSE 0)
    /\ CountOf(soundLog, id) =
          (IF unit[id].visible /\ unit[id].visibleOwn THEN 1 ELSE 0)

NotEmitted(id) ==
    CountOf(explosionList, id) = 0 /\ CountOf(soundLog, id) = 0

\* unit id is registered in the tile of its location, if that tile exists
Registered(id) ==
    TilesOf(id) = IF OnMap(unit[id].location) THEN {unit[id].location} ELSE {}

\* destroy() of unit id has come to the given step
DestroyAt(id, phase) == sched = [who |-> id, phase |-> phase]

C19_NoReveal == explored = {}

\* a unit has just been registered in the air slot of another tile, and no
\* tile has been revealed
C19_Witness ==
    /\ last.op \in {"move", "deploy"}
    /\ unit[last.id].location # last.unit.location
    /\ TilesOf(last.id) = {unit[last.id].location}
    /\ tileAir # last.air
    /\ explored = {}

\* the units registered in the air slot of a tile
AirUnitsOf(tile) == {p[2] : p \in {q \in tileAir : q[1] = tile}}

\* C20: no tile's air slot holds more than one ornithopter, and a move step
\* enters only a tile that exists and had no air unit
C20_ExclusiveAirSlot ==
    /\ \A p \in tileAir : Cardinality(AirUnitsOf(p[1])) <= 1
    /\ \A id \in DOMAIN unit :
          (last.op = "move" /\ last.id = id
           /\ unit[id].location # last.unit.location) =>
              CanPass(last.air, unit[id].location[1], unit[id].location[2])

\* the displacement of unit id in the move tick it has just made
MovedX(id) == unit[id].realX - last.unit.realX

MovedY(id) == unit[id].realY - last.unit.realY

\* C21: a move tick adds (cos(angle) * maxSpeed, -sin(angle) * maxSpeed) to the
\* position, with the heading and the current max speed the unit had before
\* the tick: at heading 0 realX grows by the speed and realY is unchanged, at
\* the quarter turn realY falls by the speed and realX is unchanged
C21_HeadingAlignedVelocity ==
    \A id \in DOMAIN unit :
        (last.op = "move" /\ last.id = id) =>
            LET a == last.unit.angle
                v == last.unit.currentMaxSpeed
            IN /\ MovedX(id) = FixMul(CosOfAngle(a), v)
               /\ MovedY(id) = -FixMul(SinOfAngle(a), v)
               /\ a = 0 => MovedX(id) = v /\ MovedY(id) = 0
               /\ a = Fix(2) => MovedX(id) = 0 /\ MovedY(id) = -v
               /\ a = Fix(4) => MovedX(id) = -v /\ MovedY(id) = 0
               /\ v = objectData.maxspeed

\* a unit heading up has moved up by its max speed, and not sideways
C21_Witness ==
    /\ last.op = "move"
    /\ last.unit.angle = Fix(2)
    /\ MovedY(last.id) = -last.unit.currentMaxSpeed
    /\ MovedY(last.id) < 0
    /\ MovedX(last.id) = 0

\* C22: after any sequence of turn steps, toward a destination or without
\* one, with any table turn speed, the heading is within [0, ring size)
C22_HeadingOnRing ==
    turnSt.angle >= 0 /\ turnSt.angle < Ring

\* the tile the position of the last move tick's unit rounds to after the tick
DerivedTile == TileOf(unit[last.id].realX, unit[last.id].realY)

\* C23: a move tick whose derived tile equals the location makes no map call
\* and leaves the air slots, the location and the guard point as they were; a
\* tick whose derived tile differs calls unassignFromMap for the old location
\* and then assignToMap for the new tile, and ends with the new location
C23_OccupancyWrittenOnTileChange ==
    last.op = "move" =>
        LET id == last.id
            old == last.unit.location
        IN IF DerivedTile = old
           THEN /\ last.calls = << >>
                /\ tileAir = last.air
                /\ unit[id].location = old
                /\ unit[id].guardPoint = last.unit.guardPoint
           ELSE /\ last.calls = << <<"unassignFromMap", old>>,
                                   <<"assignToMap", DerivedTile>> >>
                /\ <<old, id>> \notin tileAir
                /\ TileExists(DerivedTile[1], DerivedTile[2]) =>
                       tileAir = (last.air \ {<<old, id>>})
                                     \cup {<<DerivedTile, id>>}
                /\ unit[id].location = DerivedTile

\* a tick has carried a registered unit from one existing tile to another
C23_Witness ==
    /\ last.op = "move"
    /\ DerivedTile # last.unit.location
    /\ <<last.unit.location, last.id>> \in last.air
    /\ <<DerivedTile, last.id>> \in tileAir
    /\ Len(last.calls) = 2

\* AirUnit::destroy of unit id has run past its explosion and sound
PastEffects(id) ==
    \/ DestroyAt(id, "baseDestroy")
    \/ DestroyAt(id, "release")
    \/ unit[id].released

\* C26: when an air unit is destroyed an explosion is requested iff the unit
\* is visible, and the sound is played iff it is visible and visible to its
\* owner's team; a sound is never played without an explosion, and an
\* invisible unit is destroyed with neither
C26_EffectsGatedByVisibility ==
    \A id \in DOMAIN unit :
        /\ CountOf(soundLog, id) <= CountOf(explosionList, id)
        /\ PastEffects(id) =>
              /\ CountOf(explosionList, id) = 1 <=> unit[id].visible
              /\ CountOf(soundLog, id) = 1 <=>
                     (unit[id].visible /\ unit[id].visibleOwn)
              /\ ~unit[id].visible =>
                     CountOf(explosionList, id) = 0 /\ CountOf(soundLog, id) = 0

\* a unit that is visible, but not to its own team, has been destroyed with
\* an explosion and without the sound
C26_Witness ==
    \E id \in DOMAIN unit :
        /\ unit[id].released
        /\ unit[id].visible /\ ~unit[id].visibleOwn
        /\ CountOf(explosionList, id) = 1
        /\ CountOf(soundLog, id) = 0

\* the last turn step had no usable destination: none at all, or the primary
\* weapon timer was above a third of the reload time
NoUsableDestination ==
    ~turnSt.destValid \/ 3 * turnSt.timer > ReloadTime

\* C27: a turn step without usable destination decreases the heading by
\* turnspeed/8, wrapping below 0 to the top of the ring, whatever the
\* destination is; only a step with a valid destination and a timer at or
\* below the threshold turns toward the destination
C27_CirclesWithoutUsableDestination ==
    turnSt.steps > 0 =>
        LET circled == turnSt.prev - TruncDiv(turnSt.speed, 8)
            arc == AngleDist(turnSt.prev, turnSt.dest)
        IN IF NoUsableDestination
           THEN turnSt.angle = IF circled < 0 THEN circled + Ring ELSE circled
           ELSE AngleDist(turnSt.angle, turnSt.dest) =
                    arc - Min(turnSt.speed, arc)

\* a unit with a valid destination on its left, whose weapon timer is just
\* above the threshold, has circled to the right and wrapped below 0
C27_Witness ==
    /\ turnSt.steps > 0
    /\ turnSt.destValid
    /\ turnSt.timer = ReloadTime \div 3 + 1
    /\ turnSt.prev = 0
    /\ turnSt.dest = One
    /\ turnSt.speed = 8
    /\ turnSt.angle = Ring - 1

\* the last move tick called assignToMap for a tile that exists
AssignedOnMap ==
    /\ last.op = "move"
    /\ last.calls # << >>
    /\ TileExists(DerivedTile[1], DerivedTile[2])

\* C28: the first assignToMap onto an existing tile while the guard point is
\* invalid sets the guard point to that tile; every later assignToMap, and
\* every move tick without one, leaves the guard point unchanged
C28_GuardPointSetOnce ==
    last.op = "move" =>
        LET g == last.unit.guardPoint
        IN IF ~g.valid /\ AssignedOnMap
           THEN unit[last.id].guardPoint = Coord(DerivedTile[1], DerivedTile[2])
           ELSE unit[last.id].guardPoint = g

\* a unit that came from beyond the edge, and whose guard point is the tile
\* where it entered the map, has been assigned to another tile and has kept
\* that guard point
C28_Witness ==
    /\ AssignedOnMap
    /\ unit[last.id].realX >= Fix(MapW * TILESIZE) - Fix(4)
    /\ last.unit.guardPoint.valid
    /\ unit[last.id].guardPoint = last.unit.guardPoint
    /\ unit[last.id].guardPoint # Coord(DerivedTile[1], DerivedTile[2])

\* the textures handed to the label to be freed by it
OwnedTextures == {t \in AllTextures : <<t, TRUE>> \in label.handed}

\* the textures handed to the label only to be shown
LentTextures == {t \in AllTextures : <<t, FALSE>> \in label.handed} \ OwnedTextures

\* C24: over any sequence of setTexture and setSurface calls followed by the
\* destruction of the label, no texture is destroyed twice, a texture handed
\* over with bFreeTexture = true has been destroyed once when the label is
\* gone, a texture handed over only with bFreeTexture = false is never
\* destroyed, and the texture the label shows is never a destroyed one
C24_TextureOwnership ==
    /\ \A t \in AllTextures : label.destroyed[t] <= 1
    /\ \A t \in LentTextures : label.destroyed[t] = 0
    /\ (label.alive /\ label.pTexture # NULL) =>
           label.destroyed[label.pTexture] = 0
    /\ ~label.alive => \A t \in OwnedTextures : label.destroyed[t] = 1

\* the keys of the FEATURES section that are true or cannot be read
TrueKeys ==
    {i \in DOMAIN ini.keys : ini.keys[i].value # "false"}

\* C25: checkFeatures raises the error, naming the map and the line of the
\* first key that is true or has no readable value, iff the FEATURES section
\* exists and has such a key; otherwise it returns without error
C25_UnsupportedFeatureRaises ==
    ini.checked =>
        IF ini.hasSection /\ TrueKeys # {}
        THEN /\ ini.result.thrown
             /\ ini.result.mapname = ini.mapname
             /\ ini.result.key \in TrueKeys
             /\ \A i \in TrueKeys : ini.result.key <= i
             /\ ini.result.line = ini.keys[ini.result.key].line
        ELSE ~ini.result.thrown

\* a section whose first key is false and whose second key has no readable
\* value, followed by a key that is true: the second key is reported
C25_Witness ==
    /\ ini.checked
    /\ ini.hasSection
    /\ Len(ini.keys) = 3
    /\ ini.keys[1].value = "false"
    /\ ini.keys[2].value = ""
    /\ ini.keys[3].value = "true"
    /\ ini.result.thrown
    /\ ini.result.key = 2

\* the steps of the mode cycle
ModeCycle ==
    {<<"Mode_RadarOff", "Mode_AnimationRadarOn">>,
     <<"Mode_AnimationRadarOn", "Mode_RadarOn">>,
     <<"Mode_RadarOn", "Mode_AnimationRadarOff">>,
     <<"Mode_AnimationRadarOff", "Mode_RadarOff">>}

\* C29: an update changes the mode only along the cycle RadarOff ->
\* AnimationRadarOn -> RadarOn -> AnimationRadarOff -> RadarOff; a running
\* animation goes on in its direction whatever the house's radar does; and
\* switchRadarMode is called once in exactly the updates that leave a steady
\* mode, with the voice of the direction, and never during an animation
C29_ModeCycle ==
    LET from == radar.prevMode
        to == radar.currentRadarMode
    IN /\ from # to => <<from, to>> \in ModeCycle
       /\ (from = "Mode_AnimationRadarOn" /\ to = from) =>
              radar.animFrame <= radar.prevFrame
       /\ (from = "Mode_AnimationRadarOff" /\ to = from) =>
              radar.animFrame >= radar.prevFrame
       /\ radar.cues = (IF from \in SteadyModes /\ to # from THEN 1 ELSE 0)
       /\ from \in AnimationModes => radar.cues = 0 /\ radar.voice = "none"
       /\ radar.cues = 1 =>
              radar.voice = (IF to = "Mode_AnimationRadarOn"
                             THEN "RadarActivated" ELSE "RadarDeactivated")

\* the house lost its radar during the switch-on animation, the animation ran
\* to its end, and the update after it has started the switch-off animation
C29_Witness ==
    /\ ~radar.hasRadarOn
    /\ radar.prevMode = "Mode_RadarOn"
    /\ radar.currentRadarMode = "Mode_AnimationRadarOff"
    /\ radar.cues = 1
    /\ radar.voice = "RadarDeactivated"
    /\ radar.since = 2

\* the mode is the steady mode of the house's radar, and no cue was played
Settled ==
    /\ radar.currentRadarMode = (IF radar.hasRadarOn THEN "Mode_RadarOn"
                                                     ELSE "Mode_RadarOff")
    /\ radar.cues = 0

\* C30: if the house's radar stays as it is from some update on, the mode
\* becomes the matching steady mode and stays so without further cue; this
\* takes at most two animations of (NUM_STATIC_FRAMES - 1) *
\* NUM_STATIC_FRAME_TIME counter steps each, and the updates that end them
C30_RadarSettles ==
    /\ <>[](radar.hasRadarOn) => <>[](radar.hasRadarOn /\ Settled)
    /\ <>[](~radar.hasRadarOn) => <>[](~radar.hasRadarOn /\ Settled)
    /\ [](radar.since >= SettleUpdates => Settled)
    /\ [](radar.steps <= 2 * AnimationSteps)

\* the house's radar changed just after an animation had started; the mode
\* has settled in the last update, after the rest of that animation and the
\* whole of the opposite one
C30_Witness ==
    /\ Settled
    /\ radar.prevMode \in AnimationModes
    /\ radar.since = SettleUpdates - 1
    /\ radar.steps = 2 * AnimationSteps - 1

\* C31: after every update animFrame is in [0, NUM_STATIC_FRAMES - 1] and
\* animCounter in [1, NUM_STATIC_FRAME_TIME]; animFrame is 0 whenever the mode
\* is Mode_RadarOn and NUM_STATIC_FRAMES - 1 whenever it is Mode_RadarOff
C31_FrameAndCounterInRange ==
    /\ radar.animFrame >= 0
    /\ radar.animFrame <= NUM_STATIC_FRAMES - 1
    /\ radar.animCounter >= 1
    /\ radar.animCounter <= NUM_STATIC_FRAME_TIME
    /\ radar.currentRadarMode = "Mode_RadarOn" => radar.animFrame = 0
    /\ radar.currentRadarMode = "Mode_RadarOff" =>
           radar.animFrame = NUM_STATIC_FRAMES - 1

\* the switch-on animation has just ended: the mode is Mode_RadarOn at frame 0
\* with a full counter
C31_Witness ==
    /\ radar.prevMode = "Mode_AnimationRadarOn"
    /\ radar.currentRadarMode = "Mode_RadarOn"
    /\ radar.animFrame = 0
    /\ radar.animCounter = NUM_STATIC_FRAME_TIME
    /\ radar.steps >= AnimationSteps

\* the frame after frame f of an animation that starts again at its end
Following(f) == (f + 1) % anim.frames

\* what the last call has done to an animation of F frames that was set to
\* loop for ever, or for anim.loops passes
PlaysItsPasses ==
    LET l == anim.last
    IN /\ l.call # "none" =>
             /\ anim.loopsLeft <= l.prevLoops
             /\ ~l.elapsed => anim.curFrame = l.prevFrame
             /\ (l.elapsed /\ l.prevLoops = 0) => anim.curFrame = l.prevFrame
             /\ (l.elapsed /\ anim.loopsLeft # 0) =>
                    anim.curFrame = Following(l.prevFrame)
       /\ anim.loops = -1 => anim.loopsLeft = -1
       /\ anim.loops >= 0 =>
             /\ anim.loopsLeft >= 0
             /\ anim.passes + anim.loopsLeft = anim.loops
       /\ (anim.loops >= 1 /\ anim.loopsLeft = 0) =>
             anim.curFrame = anim.frames - 1

\* C32: with loopsLeft = -1 the current frame cycles through 0 .. F-1 for
\* ever; with loopsLeft = n >= 1 the animation plays exactly n passes, then
\* stays on frame F-1 with loopsLeft = 0; loopsLeft never increases and, once
\* finite, never drops below 0
C32_LoopCount ==
    /\ []PlaysItsPasses
    /\ (anim.loops = -1) ~> (anim.curFrame = 0)
    /\ (anim.loops = -1) ~> (anim.curFrame = anim.frames - 1)
    /\ (anim.loops >= 1) ~> (anim.loopsLeft = 0 /\ anim.passes = anim.loops)

\* an animation of several frames has played its last pass of several and
\* has been asked again for its frame since
C32_Witness ==
    /\ anim.loops = MaxLoops
    /\ anim.frames = MaxFrames
    /\ anim.loopsLeft = 0
    /\ anim.passes = MaxLoops
    /\ anim.curFrame = MaxFrames - 1
    /\ anim.last.elapsed
    /\ anim.last.prevLoops = 0

\* the last call has read frames or frameTextures
ReadsAFrame == anim.last.call \in {"getFrame", "getFrameTexture"}

\* C33: whenever the frame list is not empty, the index getFrame and
\* getFrameTexture use is smaller than the number of frames, also when a
\* frame override is set; with an empty frame list they return null without
\* indexing
C33_FrameIndexValid ==
    ReadsAFrame =>
        IF anim.last.null
        THEN anim.frames = 0 /\ anim.last.index = INVALID_FRAME
        ELSE /\ anim.frames > 0
             /\ anim.last.index >= 0
             /\ anim.last.index < anim.frames
             /\ anim.last.index < anim.textures \/ anim.last.call = "getFrame"
             /\ ~anim.last.oob

\* the same, for the calls made while no frame override is set
C33_ValidWithoutOverride ==
    anim.curFrameOverride = INVALID_FRAME => C33_FrameIndexValid

\* the same, for the calls made while the override is one of the frames
C33_ValidWithOverrideInRange ==
    (anim.curFrameOverride = INVALID_FRAME
        \/ anim.curFrameOverride < anim.frames) => C33_FrameIndexValid

\* the alpha of the last draw lies in 0 .. 255 and follows the alpha of the
\* draw before it in the direction of the fade, starting from 255 for a fade
\* to black and from 0 for a fade to white
AlphaFades ==
    /\ fade.alpha >= 0
    /\ fade.alpha <= 255
    /\ IF fade.bFadeWhite
       THEN IF fade.draws = 1 THEN fade.alpha = 0
                              ELSE fade.alpha >= fade.prevAlpha
       ELSE IF fade.draws = 1 THEN fade.alpha = 255
                              ELSE fade.alpha <= fade.prevAlpha

\* C34: each draw advances currentFrame by exactly one, so isFinished is
\* false before numFrames2FadeOut draws, true after exactly that many and
\* stays true; every draw made while not finished has an alpha in 0 .. 255
\* that changes monotonically; no draw divides by zero
C34_FadeTerminates ==
    fade.constructed =>
        /\ ~fade.divByZero
        /\ ~fade.crashed
        /\ fade.currentFrame = fade.draws
        /\ IsFinished(fade) <=> fade.draws >= fade.numFrames2FadeOut
        /\ fade.finished # "unknown" =>
               (fade.finished = "true"
                   <=> fade.draws >= fade.numFrames2FadeOut)
        /\ (fade.draws >= 1 /\ ~fade.late) => AlphaFades

\* the same, for the events no draw of which was made when they were
\* finished
C34_TerminatesWhenDrawnUntilFinished ==
    ~fade.anyLate => C34_FadeTerminates

\* the same, for the events of at least one frame
C34_TerminatesWithFrames ==
    fade.numFrames2FadeOut >= 1 => C34_FadeTerminates

=============================================================================
